---- MODULE Spec2Model ----
(***************************************************************************)
(* Point-of-sale backend: the transaction, credit and currency-rate        *)
(* handlers and the documents they read and write.                         *)
(*                                                                         *)
(* A handler is an async function: it runs without interruption between   *)
(* two awaits, and every await is one storage operation.  Each action      *)
(* below is one storage operation of one request together with the        *)
(* handler code that runs after it, up to the next storage operation the   *)
(* handler issues (or up to its response).  Requests interleave only at    *)
(* those points.                                                           *)
(*                                                                         *)
(* A request body is fixed when the request arrives; the model reads each  *)
(* of its fields at the step where the handler first uses it.              *)
(***************************************************************************)
EXTENDS Integers, Sequences, FiniteSets, TLC

\* ---------------------------------------------------------------- values

\* A JavaScript value that may be undefined: <<>> is undefined, <<n>> is n.
Absent == <<>>

N(n) == <<n>>

Has(x) == x # <<>>

V(x) == x[1]

\* typeof x === 'number'
IsNumber(x) == Has(x)

\* JavaScript truthiness of a number-or-undefined: 0 and undefined are falsy.
Truthy(x) == Has(x) /\ V(x) # 0

\* x || d
OrDefault(x, d) == IF Truthy(x) THEN V(x) ELSE d

\* a < b in JavaScript: a comparison with undefined (NaN) is false.
Lt(a, b) == Has(a) /\ Has(b) /\ V(a) < V(b)

\* The number Infinity (1e999 in a JSON body parses to it): a number larger
\* than every finite number of the model, kept by the arithmetic below.
Infinity == 1000000

IsInfinite(n) == n = Infinity \/ n = -Infinity

\* a * b in JavaScript: NaN (here undefined) when an operand is undefined,
\* and when one is infinite and the other 0.
Mul(a, b) ==
    IF ~Has(a) \/ ~Has(b) THEN Absent
    ELSE IF IsInfinite(V(a)) \/ IsInfinite(V(b))
         THEN IF V(a) = 0 \/ V(b) = 0 THEN Absent
              ELSE N(IF (V(a) < 0) = (V(b) < 0) THEN Infinity ELSE -Infinity)
    ELSE N(V(a) * V(b))

\* a + b where either may be NaN or infinite.
Add(a, b) ==
    IF ~Has(a) \/ ~Has(b) THEN Absent
    ELSE IF IsInfinite(V(a)) /\ IsInfinite(V(b))
         THEN IF V(a) = V(b) THEN a ELSE Absent
    ELSE IF IsInfinite(V(a)) THEN a
    ELSE IF IsInfinite(V(b)) THEN b
    ELSE N(V(a) + V(b))


\* ---------------------------------------------------------------- bounds

\* Requests the model lets arrive; all of them may be in flight at once.
MaxRequests == 2

\* Line items one request carries at most.
MaxItems == 2

\* Days the clock may advance (the clock is read when a document is built
\* or stamped; the model moves it at those reads).
MaxDay == 1

Requests == 1..MaxRequests

\* ------------------------------------------------------------- constants

\* const EXCHANGE_RATE = currencyRate || 197
DefaultRate == 197

ProductIds == {"p1", "p2", "p3", "p4"}

\* The catalog the handlers start from: a stocked product, a product that is
\* out of stock, a product without a USD price and a product whose quantity
\* was never set (the schema gives pieces, priceUSD and totalLRD no default).
InitProducts ==
    [p \in ProductIds |->
        CASE p = "p1" -> [store |-> "A", item |-> "rice", pieces |-> N(2),
                          priceUSD |-> N(1), priceLRD |-> N(2), totalLRD |-> N(4)]
          [] p = "p2" -> [store |-> "A", item |-> "oil", pieces |-> N(0),
                          priceUSD |-> N(2), priceLRD |-> N(4), totalLRD |-> N(8)]
          [] p = "p3" -> [store |-> "B", item |-> "salt", pieces |-> N(1),
                          priceUSD |-> Absent, priceLRD |-> N(5), totalLRD |-> N(5)]
          [] OTHER    -> [store |-> "B", item |-> "soap", pieces |-> Absent,
                          priceUSD |-> N(3), priceLRD |-> N(6), totalLRD |-> Absent]]

\* ------------------------------------------------------------------ state

VARIABLES
    products,       \* the Product collection: _id -> document
    rate,           \* the CurrencyRate collection; findOne() gives the first
    transactions,   \* the Transaction collection, in insertion order (_id = index)
    credits,        \* the Credit collection, in insertion order (_id = index)
    req,            \* the requests: each handler's position and local variables
    now             \* the server clock, in days

vars == <<products, rate, transactions, credits, req, now>>

\* A request that has not arrived yet.
Fresh ==
    [kind |-> "none", pc |-> "idle", store |-> "",
     status |-> 0,          \* the HTTP status of the response
     error |-> "",          \* the error of the response body
     item |-> <<>>,        \* the line item of the current loop iteration
     product |-> <<>>,     \* const product = await Product.findOne(...)
     enhanced |-> <<>>,    \* enhancedProductsSold / enhancedProductsReturned
     pay |-> <<>>,         \* the payment fields of the body, once read
     doc |-> <<>>,         \* the document the handler has built and is saving
     totalLRD |-> N(0), totalUSD |-> N(0),   \* createReturnTransaction's accumulators
     customerName |-> "",  \* createCredit's customerName
     creditId |-> 0,       \* req.params.id of payCredit
     credit |-> <<>>,      \* const credit = await Credit.findOne(...)
     lrdToUsd |-> <<>>,    \* updateRate's validated rate
     query |-> <<>>,       \* req.query of a report
     sales |-> <<>>,       \* salesTransactions
     returns |-> <<>>,     \* returnTransactions
     report |-> <<>>]      \* the body of a report's response


\* A credit that an earlier createCredit of store A left pending.
InitCredits ==
    << [productsSold |->
            << [product |-> "p1", quantity |-> 1, productName |-> "rice",
                priceAtSale |-> [USD |-> N(1), LRD |-> N(2)]] >>,
        store |-> "A",
        customerName |-> "bob",
        totalLRD |-> 1000,
        totalUSD |-> 5,
        status |-> "pending",
        preferredCurrency |-> "LRD",
        date |-> 0,
        paidAt |-> Absent,
        paymentTransaction |-> Absent] >>

Init ==
    /\ products = InitProducts
    /\ rate = <<>>     \* no rate was stored yet: the first update creates it
    /\ transactions = <<>>
    /\ credits = InitCredits
    /\ req = [r \in Requests |-> Fresh]
    /\ now = 0

\* Requests arrive in the order of their numbers; any number may be in flight.
CanStart(r) ==
    /\ req[r].pc = "idle"
    /\ r > 1 => req[r - 1].pc # "idle"

\* res.status(code).json(...): the handler returns and its locals are gone
\* (the model keeps what the request read of its body and what it applied).
Respond(rq, code, error) ==
    [rq EXCEPT !.pc = "done", !.status = code, !.error = error,
               !.item = <<>>, !.product = <<>>, !.doc = <<>>, !.credit = <<>>,
               !.sales = <<>>, !.returns = <<>>]

\* ------------------------------------------------------- storage operations

\* The lookup by id alone: Product.findOne({ _id: id })
FindProductAnyStore(id, store) ==
    IF id \in DOMAIN products THEN N(products[id]) ELSE Absent

\* Product.findOne({ _id: id, store })
FindProduct(id, store) ==
    IF id \in DOMAIN products /\ products[id].store = store
    THEN N(products[id]) ELSE Absent

\* Product.findByIdAndUpdate(id, { $inc: { pieces: delta } }): one atomic
\* update of the stored document; $inc sets a missing field to delta.
IncPieces(id, delta) ==
    [products EXCEPT ![id].pieces =
        IF Has(@) THEN N(V(@) + delta) ELSE N(delta)]

\* -------------------------------------------------------- Transaction model

\* Schema validation run by transaction.save(): the enums and the required
\* paths of transactionSchema (defaults were applied when the document was
\* constructed).
TxValid(doc) ==
    /\ doc.type \in {"sale", "restock", "return"}
    /\ doc.store # ""
    /\ doc.currency \in {"LRD", "USD", "BOTH"}
    /\ doc.changeCurrency \in {"LRD", "USD"}
    /\ Has(doc.totalLRD) /\ Has(doc.totalUSD)
    /\ \A i \in 1..Len(doc.productsSold) :
          /\ doc.productsSold[i].productName # ""
          /\ Has(doc.productsSold[i].priceAtSale.USD)
          /\ Has(doc.productsSold[i].priceAtSale.LRD)

\* ---------------------------------------------------------- createTransaction

\* The line item with the product's name and both prices snapshotted.
Enhance(item, product) ==
    [product |-> item.product, quantity |-> item.quantity,
     productName |-> product.item,
     priceAtSale |-> [USD |-> product.priceUSD, LRD |-> product.priceLRD]]

\* The stock check left out.
InsufficientNever(product, item) == FALSE

\* The stock check of createTransaction and createCredit refuses the item.
Insufficient(product, item) == Lt(product.pieces, N(item.quantity))

\* The error texts of the payment validation.
ErrLRD == "Amount received in LRD must be greater than or equal to the total"

ErrUSD == "Amount received in USD must be greater than or equal to the total"

ErrBoth == "Both LRD and USD amounts must be provided for split payment"

ErrCombined == "Combined payment amount is insufficient"

\* The Mongoose validation error that save() throws and the handler catches.
ErrValidation == "validation failed"

\* SalePaymentError with the single-currency comparisons written <=, which
\* refuses a payment of exactly the total.
SalePaymentErrorStrict(pay) ==
    LET EXCHANGE_RATE == OrDefault(pay.currencyRate, DefaultRate) IN
    CASE pay.currency = "LRD" ->
            IF ~IsNumber(pay.amountReceivedLRD)
                  \/ (Has(pay.totalLRD) /\ V(pay.amountReceivedLRD) <= V(pay.totalLRD))
            THEN ErrLRD ELSE ""
      [] pay.currency = "USD" ->
            IF ~IsNumber(pay.amountReceivedUSD)
                  \/ (Has(pay.totalUSD) /\ V(pay.amountReceivedUSD) <= V(pay.totalUSD))
            THEN ErrUSD ELSE ""
      [] pay.currency = "BOTH" ->
            IF ~IsNumber(pay.amountReceivedLRD) \/ ~IsNumber(pay.amountReceivedUSD)
            THEN ErrBoth
            ELSE IF Lt(N(V(pay.amountReceivedLRD)
                            + V(pay.amountReceivedUSD) * EXCHANGE_RATE),
                       pay.totalLRD)
            THEN ErrCombined ELSE ""
      [] OTHER -> ""

\* The payment validation of createTransaction: the error it answers with
\* 400, or "" when the payment passes.
SalePaymentError(pay) ==
    LET EXCHANGE_RATE == OrDefault(pay.currencyRate, DefaultRate) IN
    CASE pay.currency = "LRD" ->
            IF ~IsNumber(pay.amountReceivedLRD)
                  \/ Lt(pay.amountReceivedLRD, pay.totalLRD)
            THEN ErrLRD ELSE ""
      [] pay.currency = "USD" ->
            IF ~IsNumber(pay.amountReceivedUSD)
                  \/ Lt(pay.amountReceivedUSD, pay.totalUSD)
            THEN ErrUSD ELSE ""
      [] pay.currency = "BOTH" ->
            IF ~IsNumber(pay.amountReceivedLRD) \/ ~IsNumber(pay.amountReceivedUSD)
            THEN ErrBoth
            ELSE IF Lt(N(V(pay.amountReceivedLRD)
                            + V(pay.amountReceivedUSD) * EXCHANGE_RATE),
                       pay.totalLRD)
            THEN ErrCombined ELSE ""
      [] OTHER -> ""

\* new Transaction({...}) of a sale, with the schema's defaults applied to the
\* fields that are undefined.
TxDoc(type, store, items, pay, totalLRD, totalUSD, date) ==
    LET currency == IF pay.currency = "none" THEN "LRD" ELSE pay.currency
        cc == IF pay.currency = "BOTH" THEN pay.changeCurrency ELSE pay.currency
    IN  [type |-> type,
         date |-> date,
         store |-> store,
         currency |-> currency,
         productsSold |-> items,
         amountReceivedLRD |->
            IF pay.currency = "USD" THEN 0 ELSE OrDefault(pay.amountReceivedLRD, 0),
         amountReceivedUSD |->
            IF pay.currency = "LRD" THEN 0 ELSE OrDefault(pay.amountReceivedUSD, 0),
         change |-> OrDefault(pay.change, 0),
         changeCurrency |-> IF cc = "none" THEN currency ELSE cc,
         totalLRD |-> totalLRD,
         totalUSD |-> totalUSD,
         returnReason |-> IF type = "return" THEN "No reason provided" ELSE "",
         originalTransaction |-> 0]

\* The code after one loop iteration of createTransaction (or after the store
\* check): the next line item, or the end of the list, the payment
\* validation and the construction of the Transaction.
SaleAdvance(rq, nxt, t) ==
    IF nxt.more
    THEN [rq EXCEPT !.pc = "find", !.item = N(nxt.item), !.product = <<>>]
    ELSE IF SalePaymentError(nxt.pay) # ""
         THEN Respond([rq EXCEPT !.pay = N(nxt.pay)], 400, SalePaymentError(nxt.pay))
         ELSE [rq EXCEPT !.pc = "save", !.pay = N(nxt.pay),
                         !.item = <<>>, !.product = <<>>,
                         !.doc = N(TxDoc("sale", rq.store, rq.enhanced, nxt.pay,
                                         N(OrDefault(nxt.pay.totalLRD, 0)),
                                         N(OrDefault(nxt.pay.totalUSD, 0)), t))]

\* What may come next in a body: a further line item while the list is not
\* full, or its end.
MayFollow(rq, nxt) == nxt.more => Len(rq.enhanced) < MaxItems

\* The request arrives; the store check.
SaleStart(r, store, nxt, t) ==
    /\ CanStart(r)
    /\ MayFollow(Fresh, nxt)
    /\ req' = [req EXCEPT ![r] =
            IF store = ""
            THEN Respond([Fresh EXCEPT !.kind = "sale"], 400, "Store is required")
            ELSE SaleAdvance([Fresh EXCEPT !.kind = "sale", !.store = store], nxt, t)]
    /\ now' = IF req'[r].pc = "save" THEN t ELSE now
    /\ UNCHANGED <<products, rate, transactions, credits>>

\* The stock with the decrements of the given line items given back.
RECURSIVE Restored(_, _)
Restored(stock, items) ==
    IF items = <<>> THEN stock
    ELSE Restored([stock EXCEPT ![items[1].product].pieces =
                        N(OrDefault(@, 0) + items[1].quantity)],
                  Tail(items))

\* SaleFind with a compensating rollback: when the line item is refused, the
\* decrements of the line items before it are given back.
SaleFindRollback(r) ==
    /\ req[r].kind = "sale" /\ req[r].pc = "find"
    /\ LET item == V(req[r].item)
           product == FindProduct(item.product, req[r].store)
       IN  /\ req' = [req EXCEPT ![r] =
                 IF ~Has(product) THEN Respond(@, 404, "Product not found in store")
                 ELSE IF Insufficient(V(product), item)
                      THEN Respond(@, 400, "Insufficient quantity for product")
                 ELSE [@ EXCEPT !.pc = "inc", !.product = product]]
           /\ products' = IF ~Has(product) \/ Insufficient(V(product), item)
                          THEN Restored(products, req[r].enhanced)
                          ELSE products
    /\ UNCHANGED <<rate, transactions, credits, now>>

\* Product.findOne for the current line item, then the two checks.
SaleFind(r) ==
    /\ req[r].kind = "sale" /\ req[r].pc = "find"
    /\ LET item == V(req[r].item)
           product == FindProduct(item.product, req[r].store)
       IN  req' = [req EXCEPT ![r] =
              IF ~Has(product) THEN Respond(@, 404, "Product not found in store")
              ELSE IF Insufficient(V(product), item)
                   THEN Respond(@, 400, "Insufficient quantity for product")
              ELSE [@ EXCEPT !.pc = "inc", !.product = product]]
    /\ UNCHANGED <<products, rate, transactions, credits, now>>

\* SaleInc with the decrement written as a read-modify-write of the document
\* that findOne returned (product.pieces -= quantity; product.save()).
SaleIncStale(r, nxt, t) ==
    /\ req[r].kind = "sale" /\ req[r].pc = "inc"
    /\ LET item == V(req[r].item)
           rq == [req[r] EXCEPT !.enhanced =
                     Append(@, Enhance(item, V(req[r].product)))]
       IN  /\ MayFollow(rq, nxt)
           /\ products' = [products EXCEPT ![item.product].pieces =
                    N(OrDefault(V(req[r].product).pieces, 0) - item.quantity)]
           /\ req' = [req EXCEPT ![r] = SaleAdvance(rq, nxt, t)]
    /\ now' = IF req'[r].pc = "save" THEN t ELSE now
    /\ UNCHANGED <<rate, transactions, credits>>

\* The $inc of the current line item, then the snapshot is pushed and the
\* loop goes on.
SaleInc(r, nxt, t) ==
    /\ req[r].kind = "sale" /\ req[r].pc = "inc"
    /\ LET item == V(req[r].item)
           rq == [req[r] EXCEPT !.enhanced =
                     Append(@, Enhance(item, V(req[r].product)))]
       IN  /\ MayFollow(rq, nxt)
           /\ products' = IncPieces(item.product, 0 - item.quantity)
           /\ req' = [req EXCEPT ![r] = SaleAdvance(rq, nxt, t)]
    /\ now' = IF req'[r].pc = "save" THEN t ELSE now
    /\ UNCHANGED <<rate, transactions, credits>>

\* transaction.save(): validation, then the insert; a validation error is
\* caught and answered 400.
SaleSave(r) ==
    /\ req[r].kind = "sale" /\ req[r].pc = "save"
    /\ IF TxValid(V(req[r].doc))
       THEN /\ transactions' = Append(transactions, V(req[r].doc))
            /\ req' = [req EXCEPT ![r] = Respond(@, 201, "")]
       ELSE /\ transactions' = transactions
            /\ req' = [req EXCEPT ![r] = Respond(@, 400, ErrValidation)]
    /\ UNCHANGED <<products, rate, credits, now>>

\* ------------------------------------------------------ createReturnTransaction

\* The quantity check written as `item.quantity < 0`, which lets a quantity of
\* zero through.
InvalidReturnQuantityNegative(item) == item.quantity < 0

\* The quantity check of createReturnTransaction refuses the item.
InvalidReturnQuantity(item) == item.quantity = 0 \/ item.quantity <= 0

\* The code after one loop iteration of createReturnTransaction: the next
\* line item, or the construction of the return Transaction.
ReturnAdvance(rq, nxt, t) ==
    IF nxt.more
    THEN [rq EXCEPT !.pc = "find", !.item = N(nxt.item), !.product = <<>>]
    ELSE [rq EXCEPT !.pc = "save", !.pay = N(nxt.pay),
                    !.item = <<>>, !.product = <<>>,
                    !.doc = N(TxDoc("return", rq.store, rq.enhanced, nxt.pay,
                                    rq.totalLRD, rq.totalUSD, t))]

\* The request arrives; the store check and the check of the list.
ReturnStart(r, store, nxt) ==
    /\ CanStart(r)
    /\ req' = [req EXCEPT ![r] =
            LET rq == [Fresh EXCEPT !.kind = "return", !.store = store]
            IN  IF store = "" THEN Respond(rq, 400, "Store is required")
                ELSE IF ~nxt.more
                THEN Respond(rq, 400, "At least one product must be returned")
                ELSE ReturnAdvance(rq, nxt, 0)]
    /\ UNCHANGED <<products, rate, transactions, credits, now>>

\* Product.findOne for the current line item, then the two checks.
ReturnFind(r) ==
    /\ req[r].kind = "return" /\ req[r].pc = "find"
    /\ LET item == V(req[r].item)
           product == FindProduct(item.product, req[r].store)
       IN  req' = [req EXCEPT ![r] =
              IF ~Has(product) THEN Respond(@, 404, "Product not found in store")
              ELSE IF InvalidReturnQuantity(item)
                   THEN Respond(@, 400, "Invalid quantity for product")
              ELSE [@ EXCEPT !.pc = "inc", !.product = product]]
    /\ UNCHANGED <<products, rate, transactions, credits, now>>

\* ReturnInc without the accumulation of the totals.
ReturnIncNoTotals(r, nxt, t) ==
    /\ req[r].kind = "return" /\ req[r].pc = "inc"
    /\ LET item == V(req[r].item)
           product == V(req[r].product)
           rq == [req[r] EXCEPT !.enhanced = Append(@, Enhance(item, product))]
       IN  /\ MayFollow(rq, nxt)
           /\ products' = IncPieces(item.product, item.quantity)
           /\ req' = [req EXCEPT ![r] = ReturnAdvance(rq, nxt, t)]
    /\ now' = IF req'[r].pc = "save" THEN t ELSE now
    /\ UNCHANGED <<rate, transactions, credits>>

\* The $inc that puts the returned quantity back, then the totals from the
\* prices that were read and the snapshot.
ReturnInc(r, nxt, t) ==
    /\ req[r].kind = "return" /\ req[r].pc = "inc"
    /\ LET item == V(req[r].item)
           product == V(req[r].product)
           rq == [req[r] EXCEPT
                     !.totalLRD = Add(@, Mul(product.priceLRD, N(item.quantity))),
                     !.totalUSD = Add(@, Mul(product.priceUSD, N(item.quantity))),
                     !.enhanced = Append(@, Enhance(item, product))]
       IN  /\ MayFollow(rq, nxt)
           /\ products' = IncPieces(item.product, item.quantity)
           /\ req' = [req EXCEPT ![r] = ReturnAdvance(rq, nxt, t)]
    /\ now' = IF req'[r].pc = "save" THEN t ELSE now
    /\ UNCHANGED <<rate, transactions, credits>>

\* transaction.save() of the return.
ReturnSave(r) ==
    /\ req[r].kind = "return" /\ req[r].pc = "save"
    /\ IF TxValid(V(req[r].doc))
       THEN /\ transactions' = Append(transactions, V(req[r].doc))
            /\ req' = [req EXCEPT ![r] = Respond(@, 201, "")]
       ELSE /\ transactions' = transactions
            /\ req' = [req EXCEPT ![r] = Respond(@, 400, ErrValidation)]
    /\ UNCHANGED <<products, rate, credits, now>>

\* ------------------------------------------------------------------ createCredit

\* The Credit model's validation on save: status and preferredCurrency are
\* enumerations and the line items have the shape of a Transaction's.
CreditValid(doc) ==
    /\ doc.status \in {"pending", "paid"}
    /\ doc.preferredCurrency \in {"LRD", "USD"}
    /\ \A i \in 1..Len(doc.productsSold) :
          /\ doc.productsSold[i].productName # ""
          /\ Has(doc.productsSold[i].priceAtSale.USD)
          /\ Has(doc.productsSold[i].priceAtSale.LRD)

\* customerName.trim() === ''
Blank(name) == name \in {"", " "}

\* new Credit({...})
CreditDoc(rq, fin, date) ==
    [productsSold |-> rq.enhanced,
     store |-> rq.store,
     customerName |-> rq.customerName,
     totalLRD |-> OrDefault(fin.totalLRD, 0),
     totalUSD |-> OrDefault(fin.totalUSD, 0),
     status |-> "pending",
     preferredCurrency |->
        IF fin.preferredCurrency = "none" THEN "LRD" ELSE fin.preferredCurrency,
     date |-> date,
     paidAt |-> Absent,
     paymentTransaction |-> Absent]

\* The code after one loop iteration of createCredit: the next line item, or
\* the construction of the Credit.
CreditAdvance(rq, nxt, t) ==
    IF nxt.more
    THEN [rq EXCEPT !.pc = "find", !.item = N(nxt.item), !.product = <<>>]
    ELSE [rq EXCEPT !.pc = "save", !.item = <<>>, !.product = <<>>,
                    !.doc = N(CreditDoc(rq, nxt.pay, t))]

\* CreditStart without the check of customerName.
CreditStartAnyName(r, store, customerName, nxt, t) ==
    /\ CanStart(r)
    /\ MayFollow(Fresh, nxt)
    /\ req' = [req EXCEPT ![r] =
            LET rq == [Fresh EXCEPT !.kind = "credit", !.store = store,
                                    !.customerName = customerName]
            IN  IF store = "" THEN Respond(rq, 400, "Store is required")
                ELSE CreditAdvance(rq, nxt, t)]
    /\ now' = IF req'[r].pc = "save" THEN t ELSE now
    /\ UNCHANGED <<products, rate, transactions, credits>>

\* The request arrives; the checks of store and customerName.
CreditStart(r, store, customerName, nxt, t) ==
    /\ CanStart(r)
    /\ MayFollow(Fresh, nxt)
    /\ req' = [req EXCEPT ![r] =
            LET rq == [Fresh EXCEPT !.kind = "credit", !.store = store,
                                    !.customerName = customerName]
            IN  IF store = "" THEN Respond(rq, 400, "Store is required")
                ELSE IF Blank(customerName)
                THEN Respond(rq, 400, "Customer name is required")
                ELSE CreditAdvance(rq, nxt, t)]
    /\ now' = IF req'[r].pc = "save" THEN t ELSE now
    /\ UNCHANGED <<products, rate, transactions, credits>>

\* Product.findOne for the current line item, then the two checks.
CreditFind(r) ==
    /\ req[r].kind = "credit" /\ req[r].pc = "find"
    /\ LET item == V(req[r].item)
           product == FindProduct(item.product, req[r].store)
       IN  req' = [req EXCEPT ![r] =
              IF ~Has(product) THEN Respond(@, 404, "Product not found in store")
              ELSE IF Insufficient(V(product), item)
                   THEN Respond(@, 400, "Insufficient quantity for product")
              ELSE [@ EXCEPT !.pc = "inc", !.product = product]]
    /\ UNCHANGED <<products, rate, transactions, credits, now>>

\* The $inc of the current line item, then the snapshot is pushed and the
\* loop goes on.
CreditInc(r, nxt, t) ==
    /\ req[r].kind = "credit" /\ req[r].pc = "inc"
    /\ LET item == V(req[r].item)
           rq == [req[r] EXCEPT !.enhanced =
                     Append(@, Enhance(item, V(req[r].product)))]
       IN  /\ MayFollow(rq, nxt)
           /\ products' = IncPieces(item.product, 0 - item.quantity)
           /\ req' = [req EXCEPT ![r] = CreditAdvance(rq, nxt, t)]
    /\ now' = IF req'[r].pc = "save" THEN t ELSE now
    /\ UNCHANGED <<rate, transactions, credits>>

\* credit.save()
CreditSave(r) ==
    /\ req[r].kind = "credit" /\ req[r].pc = "save"
    /\ IF CreditValid(V(req[r].doc))
       THEN /\ credits' = Append(credits, V(req[r].doc))
            /\ req' = [req EXCEPT ![r] = Respond(@, 201, "")]
       ELSE /\ credits' = credits
            /\ req' = [req EXCEPT ![r] = Respond(@, 400, ErrValidation)]
    /\ UNCHANGED <<products, rate, transactions, now>>

\* --------------------------------------------------------------------- payCredit

\* The lookup without the status filter: Credit.findOne({ _id: id, store })
FindAnyCredit(id, store) ==
    IF id \in DOMAIN credits /\ credits[id].store = store
    THEN N(credits[id]) ELSE Absent

\* Credit.findOne({ _id: id, store, status: 'pending' })
FindPendingCredit(id, store) ==
    IF /\ id \in DOMAIN credits
       /\ credits[id].store = store
       /\ credits[id].status = "pending"
    THEN N(credits[id]) ELSE Absent

\* PayCreditPaymentError with the split payment always valued at the default
\* rate, whatever rate the caller supplies.
PayCreditPaymentErrorFixedRate(pay, credit) ==
    CASE pay.currency = "LRD" ->
            IF ~IsNumber(pay.amountReceivedLRD)
                  \/ Lt(pay.amountReceivedLRD, N(credit.totalLRD))
            THEN ErrLRD ELSE ""
      [] pay.currency = "USD" ->
            IF ~IsNumber(pay.amountReceivedUSD)
                  \/ Lt(pay.amountReceivedUSD, N(credit.totalUSD))
            THEN ErrUSD ELSE ""
      [] pay.currency = "BOTH" ->
            IF ~IsNumber(pay.amountReceivedLRD) \/ ~IsNumber(pay.amountReceivedUSD)
            THEN ErrBoth
            ELSE IF V(pay.amountReceivedLRD) + V(pay.amountReceivedUSD) * DefaultRate
                        < credit.totalLRD
            THEN ErrCombined ELSE ""
      [] OTHER -> ""

\* The payment validation of payCredit: the error it answers with 400, or ""
\* when the payment passes.
PayCreditPaymentError(pay, credit) ==
    CASE pay.currency = "LRD" ->
            IF ~IsNumber(pay.amountReceivedLRD)
                  \/ Lt(pay.amountReceivedLRD, N(credit.totalLRD))
            THEN ErrLRD ELSE ""
      [] pay.currency = "USD" ->
            IF ~IsNumber(pay.amountReceivedUSD)
                  \/ Lt(pay.amountReceivedUSD, N(credit.totalUSD))
            THEN ErrUSD ELSE ""
      [] pay.currency = "BOTH" ->
            LET EXCHANGE_RATE == OrDefault(pay.currencyRate, DefaultRate) IN
            IF ~IsNumber(pay.amountReceivedLRD) \/ ~IsNumber(pay.amountReceivedUSD)
            THEN ErrBoth
            ELSE IF V(pay.amountReceivedLRD) + V(pay.amountReceivedUSD) * EXCHANGE_RATE
                        < credit.totalLRD
            THEN ErrCombined ELSE ""
      [] OTHER -> ""

\* The request arrives; the store check.
PayStart(r, id, store) ==
    /\ CanStart(r)
    /\ req' = [req EXCEPT ![r] =
            LET rq == [Fresh EXCEPT !.kind = "pay", !.store = store, !.creditId = id]
            IN  IF store = "" THEN Respond(rq, 400, "Store is required")
                ELSE [rq EXCEPT !.pc = "findCredit"]]
    /\ UNCHANGED <<products, rate, transactions, credits, now>>

\* Credit.findOne, then the payment validation and the construction of the
\* Transaction of the payment.
PayFind(r, pay, t) ==
    /\ req[r].kind = "pay" /\ req[r].pc = "findCredit"
    /\ LET credit == FindPendingCredit(req[r].creditId, req[r].store)
       IN  req' = [req EXCEPT ![r] =
              IF ~Has(credit) THEN Respond(@, 404, "Pending credit not found")
              ELSE IF PayCreditPaymentError(pay, V(credit)) # ""
                   THEN Respond([@ EXCEPT !.pay = N(pay)], 400,
                                PayCreditPaymentError(pay, V(credit)))
              ELSE [@ EXCEPT !.pc = "saveTx", !.credit = credit, !.pay = N(pay),
                             !.doc = N(TxDoc("sale", req[r].store, V(credit).productsSold,
                                             pay, N(V(credit).totalLRD),
                                             N(V(credit).totalUSD), t))]]
    /\ now' = IF req'[r].pc = "saveTx" THEN t ELSE now
    /\ UNCHANGED <<products, rate, transactions, credits>>

\* transaction.save(), then the credit is marked paid and linked.
PaySaveTx(r, t) ==
    /\ req[r].kind = "pay" /\ req[r].pc = "saveTx"
    /\ IF TxValid(V(req[r].doc))
       THEN /\ transactions' = Append(transactions, V(req[r].doc))
            /\ req' = [req EXCEPT ![r] =
                  [@ EXCEPT !.pc = "saveCredit",
                            !.credit = N([V(req[r].credit) EXCEPT
                                !.status = "paid",
                                !.paidAt = N(t),
                                !.paymentTransaction = N(Len(transactions) + 1)])]]
       ELSE /\ transactions' = transactions
            /\ req' = [req EXCEPT ![r] = Respond(@, 400, ErrValidation)]
    /\ now' = IF req'[r].pc = "saveCredit" THEN t ELSE now
    /\ UNCHANGED <<products, rate, credits>>

\* credit.save(): the three modified paths are written to the stored
\* document, whatever it holds by now.
PaySaveCredit(r) ==
    /\ req[r].kind = "pay" /\ req[r].pc = "saveCredit"
    /\ credits' = [credits EXCEPT ![req[r].creditId] =
            [@ EXCEPT !.status = V(req[r].credit).status,
                      !.paidAt = V(req[r].credit).paidAt,
                      !.paymentTransaction = V(req[r].credit).paymentTransaction]]
    /\ req' = [req EXCEPT ![r] = Respond(@, 200, "")]
    /\ UNCHANGED <<products, rate, transactions, now>>

\* -------------------------------------------------------------------- updateRate

\* A value of the JSON body as updateRate sees it: its type and what
\* Number(value) gives (NaN is Absent).  Strings are non-empty.
Undefined == [type |-> "undefined", num |-> Absent]

Num(n) == [type |-> "number", num |-> N(n)]

Str(num) == [type |-> "string", num |-> num]

\* !value
Falsy(value) ==
    \/ value.type = "undefined"
    \/ value.type = "number" /\ ~Truthy(value.num)

\* The rate updateRate works with: lrdToUsd, or rate when lrdToUsd is falsy.
RateOfBody(lrdToUsd, inputRate) ==
    IF Falsy(lrdToUsd) /\ ~Falsy(inputRate) THEN inputRate ELSE lrdToUsd

\* !lrdToUsd || isNaN(lrdToUsd) || lrdToUsd <= 0
InvalidRate(lrdToUsd) ==
    Falsy(lrdToUsd) \/ ~Has(lrdToUsd.num) \/ V(lrdToUsd.num) <= 0

\* The update pipeline applied with no filter on priceUSD: a document without
\* a USD price gets the null product as its priceLRD.
RepriceAll(product, newRate) ==
    LET priceLRD == Mul(product.priceUSD, N(newRate))
    IN  [product EXCEPT
           !.priceLRD = priceLRD,
           !.totalLRD = IF Truthy(product.pieces)
                        THEN Mul(product.pieces, priceLRD)
                        ELSE @]

\* The update pipeline of Product.updateMany applied to one document.
Reprice(product, newRate) ==
    IF ~Has(product.priceUSD) THEN product
    ELSE LET priceLRD == Mul(product.priceUSD, N(newRate))
         IN  [product EXCEPT
                !.priceLRD = priceLRD,
                !.totalLRD = IF Truthy(product.pieces)
                             THEN Mul(product.pieces, priceLRD)
                             ELSE @]

\* The request arrives; the rate is validated.
RateStart(r, lrdToUsd, inputRate) ==
    /\ CanStart(r)
    /\ req' = [req EXCEPT ![r] =
            LET value == RateOfBody(lrdToUsd, inputRate)
                rq == [Fresh EXCEPT !.kind = "rate", !.lrdToUsd = value.num]
            IN  IF InvalidRate(value)
                THEN Respond(rq, 400, "Invalid currency rate")
                ELSE [rq EXCEPT !.pc = "findRate"]]
    /\ UNCHANGED <<products, rate, transactions, credits, now>>

\* CurrencyRate.findOne(), then the found document is modified, or a new one
\* is built.
RateFind(r, t) ==
    /\ req[r].kind = "rate" /\ req[r].pc = "findRate"
    /\ req' = [req EXCEPT ![r] =
            IF rate # <<>>
            THEN [@ EXCEPT !.pc = "saveRate",
                           !.doc = N([lrdToUsd |-> V(req[r].lrdToUsd), updatedAt |-> t])]
            ELSE [@ EXCEPT !.pc = "createRate",
                           !.doc = N([lrdToUsd |-> V(req[r].lrdToUsd), updatedAt |-> t])]]
    /\ now' = t
    /\ UNCHANGED <<products, rate, transactions, credits>>

\* rate.save() writes the found (first) document; CurrencyRate.create
\* inserts one.
RateSave(r) ==
    /\ req[r].kind = "rate" /\ req[r].pc \in {"saveRate", "createRate"}
    /\ IF req[r].pc = "saveRate"
       THEN rate' = [rate EXCEPT ![1] = V(req[r].doc)]
       ELSE rate' = Append(rate, V(req[r].doc))
    /\ req' = [req EXCEPT ![r].pc = "updateMany"]
    /\ UNCHANGED <<products, transactions, credits, now>>

\* RateUpdateMany with the new rate also written into the line items of the
\* sales already recorded.
RateUpdateManyRepricingSales(r) ==
    /\ req[r].kind = "rate" /\ req[r].pc = "updateMany"
    /\ products' = [p \in DOMAIN products |->
                        Reprice(products[p], V(req[r].lrdToUsd))]
    /\ transactions' =
          [k \in 1..Len(transactions) |->
              IF transactions[k].type # "sale" THEN transactions[k]
              ELSE LET lines == transactions[k].productsSold IN
                   [transactions[k] EXCEPT !.productsSold =
                      [i \in 1..Len(lines) |->
                          [lines[i] EXCEPT !.priceAtSale.LRD =
                              Mul(lines[i].priceAtSale.USD, req[r].lrdToUsd)]]]]
    /\ req' = [req EXCEPT ![r] = Respond(@, 200, "")]
    /\ UNCHANGED <<rate, credits, now>>

\* Product.updateMany with the pipeline, then the 200.
RateUpdateMany(r) ==
    /\ req[r].kind = "rate" /\ req[r].pc = "updateMany"
    /\ products' = [p \in DOMAIN products |->
                        Reprice(products[p], V(req[r].lrdToUsd))]
    /\ req' = [req EXCEPT ![r] = Respond(@, 200, "")]
    /\ UNCHANGED <<rate, transactions, credits, now>>

\* ---------------------------------------------------------------- getSalesReport

\* The query of a report: a range of days, a store and the allStores flag.
Query(start, end, store, allStores) ==
    [start |-> start, end |-> end, store |-> store, allStores |-> allStores]

\* seq sorted by descending rank (ranks[i] is the rank of seq[i]); elements
\* of equal rank keep their order (Array.prototype.sort is stable, and find
\* returns documents of equal date in insertion order).
SortDescBy(seq, ranks) ==
    LET Place(i) == 1 + Cardinality({j \in 1..Len(seq) :
                            \/ ranks[j] > ranks[i]
                            \/ ranks[j] = ranks[i] /\ j < i})
    IN  [k \in 1..Len(seq) |-> seq[CHOOSE i \in 1..Len(seq) : Place(i) = k]]

\* Transaction.find({ date: { $gte: start, $lte: end }, [store], type: {$in: types} })
\*     .sort({ date: -1 })
FindTransactions(query, types) ==
    LET Matches(tx) ==
            /\ query.start <= tx.date /\ tx.date <= query.end
            /\ query.allStores \/ tx.store = query.store
            /\ tx.type \in types
        found == SelectSeq(transactions, Matches)
    IN  SortDescBy(found, [i \in 1..Len(found) |-> found[i].date])

\* The index of the bucket of a key in a rollup, 0 when it has none yet.
Position(buckets, key) ==
    IF \E i \in 1..Len(buckets) : buckets[i].key = key
    THEN CHOOSE i \in 1..Len(buckets) : buckets[i].key = key
    ELSE 0

\* if (!totals[key]) totals[key] = {...}
Touch(buckets, key, fresh) ==
    IF Position(buckets, key) = 0 THEN Append(buckets, fresh) ELSE buckets

\* A new bucket of the daily rollup (key: the day) or of the store rollup
\* (key: the store).
NewBucket(key) ==
    [key |-> key, totalLRD |-> 0, totalUSD |-> 0,
     transactions |-> 0, returns |-> 0, items |-> 0]

\* A new bucket of the product rollup; its key is `${productName}_${store}`.
NewProductBucket(name, store) ==
    [key |-> <<name, store>>, name |-> name, store |-> store,
     quantitySold |-> 0, quantityReturned |-> 0, totalLRD |-> 0, totalUSD |-> 0]

NewOverall ==
    [totalLRD |-> 0, totalUSD |-> 0, totalItems |-> 0,
     totalTransactions |-> 0, totalReturns |-> 0,
     totalAmountReceivedLRD |-> 0, totalAmountReceivedUSD |-> 0,
     totalChangeLRD |-> 0, totalChangeUSD |-> 0]

NewRollups ==
    [daily |-> <<>>, product |-> <<>>, store |-> <<>>, overall |-> NewOverall]

\* FoldTotals that adds the totals of a return like those of a sale.
FoldTotalsUnsigned(buckets, key, tx, sign) ==
    LET touched == Touch(buckets, key, NewBucket(key))
        i == Position(touched, key)
    IN  [touched EXCEPT
           ![i].totalLRD = @ + OrDefault(tx.totalLRD, 0),
           ![i].totalUSD = @ + OrDefault(tx.totalUSD, 0),
           ![i].transactions = IF sign = 1 THEN @ + 1 ELSE @,
           ![i].returns = IF sign = 1 THEN @ ELSE @ + 1]

\* The totals and the counter of one transaction folded into its bucket of
\* the daily or the store rollup: sign is 1 for a sale, -1 for a return.
FoldTotals(buckets, key, tx, sign) ==
    LET touched == Touch(buckets, key, NewBucket(key))
        i == Position(touched, key)
    IN  [touched EXCEPT
           ![i].totalLRD = @ + sign * OrDefault(tx.totalLRD, 0),
           ![i].totalUSD = @ + sign * OrDefault(tx.totalUSD, 0),
           ![i].transactions = IF sign = 1 THEN @ + 1 ELSE @,
           ![i].returns = IF sign = 1 THEN @ ELSE @ + 1]

\* The loop over transaction.productsSold: item counts and the product rollup.
RECURSIVE FoldItems(_, _, _, _)
FoldItems(acc, tx, items, sign) ==
    IF items = <<>> THEN acc
    ELSE LET product == Head(items)
             quantity == product.quantity
             d == Position(acc.daily, tx.date)
             st == Position(acc.store, tx.store)
             touched == Touch(acc.product, <<product.productName, tx.store>>,
                              NewProductBucket(product.productName, tx.store))
             k == Position(touched, <<product.productName, tx.store>>)
             next ==
                [acc EXCEPT
                   !.daily[d].items = @ + sign * quantity,
                   !.store[st].items = @ + sign * quantity,
                   !.overall.totalItems = @ + sign * quantity,
                   !.product =
                      [touched EXCEPT
                         ![k].quantitySold = IF sign = 1 THEN @ + quantity ELSE @,
                         ![k].quantityReturned = IF sign = 1 THEN @ ELSE @ + quantity,
                         ![k].totalLRD =
                            IF tx.currency = "LRD"
                            THEN @ + sign * V(product.priceAtSale.LRD) * quantity
                            ELSE @,
                         ![k].totalUSD =
                            IF tx.currency = "LRD" THEN @
                            ELSE @ + sign * V(product.priceAtSale.USD) * quantity]]
         IN  FoldItems(next, tx, Tail(items), sign)

\* The payment details of a sale added to the overall totals.
FoldPayment(overall, tx) ==
    IF tx.currency = "LRD" /\ tx.amountReceivedLRD # 0
    THEN [overall EXCEPT
            !.totalAmountReceivedLRD = @ + tx.amountReceivedLRD,
            !.totalChangeLRD = @ + tx.change]
    ELSE IF tx.currency = "USD" /\ tx.amountReceivedUSD # 0
    THEN [overall EXCEPT
            !.totalAmountReceivedUSD = @ + tx.amountReceivedUSD,
            !.totalChangeUSD = @ + tx.change]
    ELSE overall

\* One iteration of salesTransactions.forEach (sign 1) or of
\* returnTransactions.forEach (sign -1).
FoldTransaction(acc, tx, sign) ==
    LET overall ==
            [acc.overall EXCEPT
               !.totalLRD = @ + sign * OrDefault(tx.totalLRD, 0),
               !.totalUSD = @ + sign * OrDefault(tx.totalUSD, 0),
               !.totalTransactions = IF sign = 1 THEN @ + 1 ELSE @,
               !.totalReturns = IF sign = 1 THEN @ ELSE @ + 1]
        head ==
            [acc EXCEPT
               !.daily = FoldTotals(@, tx.date, tx, sign),
               !.store = FoldTotals(@, tx.store, tx, sign),
               !.overall = IF sign = 1 THEN FoldPayment(overall, tx) ELSE overall]
    IN  FoldItems(head, tx, tx.productsSold, sign)

RECURSIVE FoldAll(_, _, _)
FoldAll(acc, txs, sign) ==
    IF txs = <<>> THEN acc
    ELSE FoldAll(FoldTransaction(acc, Head(txs), sign), Tail(txs), sign)

\* The rollups after both loops, before the clamping.
Folded(sales, returns) == FoldAll(FoldAll(NewRollups, sales, 1), returns, -1)

\* Math.max(0, x)
Max0(x) == IF x < 0 THEN 0 ELSE x

\* "Ensure no negative values in the totals"
Clamped(acc) ==
    [daily |-> [i \in 1..Len(acc.daily) |->
                   [acc.daily[i] EXCEPT !.totalLRD = Max0(@), !.totalUSD = Max0(@),
                                        !.items = Max0(@)]],
     store |-> [i \in 1..Len(acc.store) |->
                   [acc.store[i] EXCEPT !.totalLRD = Max0(@), !.totalUSD = Max0(@),
                                        !.items = Max0(@)]],
     product |-> [i \in 1..Len(acc.product) |->
                   [acc.product[i] EXCEPT !.totalLRD = Max0(@), !.totalUSD = Max0(@)]],
     overall |-> [acc.overall EXCEPT !.totalLRD = Max0(@), !.totalUSD = Max0(@),
                                     !.totalItems = Max0(@)]]

\* The body of the response: the rollups as sorted arrays, the summary with
\* the store count, and the recent transactions.
ReportOf(sales, returns, recent) ==
    LET c == Clamped(Folded(sales, returns)) IN
    [summary |-> c.overall @@ [storeCount |-> Len(c.store)],
     dailyTotals |-> SortDescBy(c.daily, [i \in 1..Len(c.daily) |-> c.daily[i].key]),
     productTotals |-> SortDescBy(c.product,
                          [i \in 1..Len(c.product) |-> c.product[i].quantitySold]),
     storeTotals |-> SortDescBy(c.store,
                          [i \in 1..Len(c.store) |-> c.store[i].transactions]),
     recentTransactions |-> recent]

\* .limit(50)
RecentLimit == 50

\* .select('_id date store currency totalLRD totalUSD amountReceivedLRD
\*          amountReceivedUSD change productsSold type')
Selected(tx) ==
    [date |-> tx.date, store |-> tx.store, currency |-> tx.currency,
     totalLRD |-> tx.totalLRD, totalUSD |-> tx.totalUSD,
     amountReceivedLRD |-> tx.amountReceivedLRD,
     amountReceivedUSD |-> tx.amountReceivedUSD,
     change |-> tx.change, productsSold |-> tx.productsSold, type |-> tx.type]

\* The third find: the most recent sales and returns with their payment
\* details.
FindRecent(query) ==
    LET found == FindTransactions(query, {"sale", "return"})
        n == IF Len(found) < RecentLimit THEN Len(found) ELSE RecentLimit
    IN  [i \in 1..n |-> Selected(found[i])]

\* The request arrives; the check of the query.
ReportStart(r, query) ==
    /\ CanStart(r)
    /\ req' = [req EXCEPT ![r] =
            LET rq == [Fresh EXCEPT !.kind = "report"]
            IN  IF ~query.allStores /\ query.store = ""
                THEN Respond(rq, 400,
                        "Either store parameter or allStores flag is required")
                ELSE [rq EXCEPT !.pc = "findSales", !.query = N(query)]]
    /\ UNCHANGED <<products, rate, transactions, credits, now>>

\* ReportFindSales as a consuming read: the sales it has read are removed
\* from the collection.
ReportFindSalesDraining(r) ==
    /\ req[r].kind = "report" /\ req[r].pc = "findSales"
    /\ req' = [req EXCEPT ![r].pc = "findReturns",
                          ![r].sales = FindTransactions(V(req[r].query), {"sale"})]
    /\ transactions' =
          LET Kept(tx) == tx \notin {req'[r].sales[i] : i \in 1..Len(req'[r].sales)}
          IN  SelectSeq(transactions, Kept)
    /\ UNCHANGED <<products, rate, credits, now>>

\* Transaction.find(salesQuery).sort({ date: -1 })
ReportFindSales(r) ==
    /\ req[r].kind = "report" /\ req[r].pc = "findSales"
    /\ req' = [req EXCEPT ![r].pc = "findReturns",
                          ![r].sales = FindTransactions(V(req[r].query), {"sale"})]
    /\ UNCHANGED <<products, rate, transactions, credits, now>>

\* Transaction.find(returnsQuery).sort({ date: -1 })
ReportFindReturns(r) ==
    /\ req[r].kind = "report" /\ req[r].pc = "findReturns"
    /\ req' = [req EXCEPT ![r].pc = "findRecent",
                          ![r].returns = FindTransactions(V(req[r].query), {"return"})]
    /\ UNCHANGED <<products, rate, transactions, credits, now>>

\* The find of the recent transactions, then the two loops, the clamping,
\* the sorting and the response.
ReportFindRecent(r) ==
    /\ req[r].kind = "report" /\ req[r].pc = "findRecent"
    /\ req' = [req EXCEPT ![r] =
            Respond([@ EXCEPT !.report = N(ReportOf(req[r].sales, req[r].returns,
                                                    FindRecent(V(req[r].query))))],
                    200, "")]
    /\ UNCHANGED <<products, rate, transactions, credits, now>>

\* ---------------------------------------------------------------- getTopProducts

\* { $limit: 10 }
TopLimit == 10

\* The $match stage without the filter on the type.
MatchTopAnyType(query) ==
    LET Matches(tx) ==
            /\ query.start <= tx.date /\ tx.date <= query.end
            /\ tx.store = query.store
    IN  SelectSeq(transactions, Matches)

\* { $match: { date: { $gte: start, $lte: end }, store, type: 'sale' } }
MatchTop(query) ==
    LET Matches(tx) ==
            /\ query.start <= tx.date /\ tx.date <= query.end
            /\ tx.store = query.store
            /\ tx.type = "sale"
    IN  SelectSeq(transactions, Matches)

\* { $unwind: '$productsSold' }: one document per line item, each with the
\* fields of its transaction.
RECURSIVE Unwind(_)
Unwind(txs) ==
    IF txs = <<>> THEN <<>>
    ELSE [i \in 1..Len(Head(txs).productsSold) |->
             [tx |-> Head(txs), productsSold |-> Head(txs).productsSold[i]]]
            \o Unwind(Tail(txs))

\* A { $sum: ... } accumulator of $group over the unwound documents of one
\* product: of the line items' quantity, of the transactions' totalLRD or
\* totalUSD, or of 1.
RECURSIVE Accumulate(_, _, _, _)
Accumulate(unwound, id, what, n) ==
    IF n = 0 THEN 0
    ELSE Accumulate(unwound, id, what, n - 1)
            + (IF unwound[n].productsSold.product # id THEN 0
               ELSE CASE what = "quantity" -> unwound[n].productsSold.quantity
                      [] what = "totalLRD" -> OrDefault(unwound[n].tx.totalLRD, 0)
                      [] what = "totalUSD" -> OrDefault(unwound[n].tx.totalUSD, 0)
                      [] OTHER -> 1)

\* { $group: { _id: '$productsSold.product', ... } } over the unwound
\* documents, the groups in the order of their first document.
Group(unwound) ==
    LET First(i) == \A j \in 1..(i - 1) :
                        unwound[j].productsSold.product # unwound[i].productsSold.product
        firsts == SelectSeq([i \in 1..Len(unwound) |-> i], First)
    IN  [g \in 1..Len(firsts) |->
            LET id == unwound[firsts[g]].productsSold.product IN
            [key |-> id,
             totalQuantity |-> Accumulate(unwound, id, "quantity", Len(unwound)),
             totalSalesLRD |-> Accumulate(unwound, id, "totalLRD", Len(unwound)),
             totalSalesUSD |-> Accumulate(unwound, id, "totalUSD", Len(unwound)),
             transactions |-> Accumulate(unwound, id, "count", Len(unwound))]]

\* $lookup from products, $unwind of the joined product (a group whose
\* product is not in the catalog is dropped) and $project.
Joined(groups) ==
    LET InCatalog(g) == g.key \in DOMAIN products
        kept == SelectSeq(groups, InCatalog)
    IN  [i \in 1..Len(kept) |->
            [id |-> kept[i].key, item |-> products[kept[i].key].item,
             totalQuantity |-> kept[i].totalQuantity,
             totalSalesLRD |-> kept[i].totalSalesLRD,
             totalSalesUSD |-> kept[i].totalSalesUSD,
             transactions |-> kept[i].transactions]]

Reversed(seq) == [i \in 1..Len(seq) |-> seq[Len(seq) + 1 - i]]

\* { $sort: { totalQuantity: -1 } }, { $limit: 10 }.  The order in which
\* $group emits its groups, and so the order of entries of equal quantity,
\* is not specified: `tie` chooses between the order of first appearance and
\* its reverse.
TopOf(query, tie) ==
    LET joined == Joined(Group(Unwind(MatchTop(query))))
        groups == IF tie THEN joined ELSE Reversed(joined)
        sorted == SortDescBy(groups,
                             [i \in 1..Len(groups) |-> groups[i].totalQuantity])
        n == IF Len(sorted) < TopLimit THEN Len(sorted) ELSE TopLimit
    IN  SubSeq(sorted, 1, n)

\* The request arrives: the range, with its defaults new Date(0) and new
\* Date(), and the store of the query.
TopStart(r, start, end, store, t) ==
    /\ CanStart(r)
    /\ req' = [req EXCEPT ![r] =
            [Fresh EXCEPT !.kind = "top", !.pc = "aggregate",
                          !.query = N(Query(OrDefault(start, 0),
                                            IF Has(end) THEN V(end) ELSE t,
                                            store, FALSE))]]
    /\ now' = IF Has(end) THEN now ELSE t
    /\ UNCHANGED <<products, rate, transactions, credits>>

\* Transaction.aggregate([...]), then the response.
TopAggregate(r, tie) ==
    /\ req[r].kind = "top" /\ req[r].pc = "aggregate"
    /\ req' = [req EXCEPT ![r] =
            Respond([@ EXCEPT !.report = N(TopOf(V(req[r].query), tie))], 200, "")]
    /\ UNCHANGED <<products, rate, transactions, credits, now>>

\* ----------------------------------------------------------------- inputs

\* The payment fields of a createTransaction or payCredit body.
Pay(currency, aLRD, aUSD, change, changeCurrency, totalLRD, totalUSD, currencyRate) ==
    [currency |-> currency, amountReceivedLRD |-> aLRD, amountReceivedUSD |-> aUSD,
     change |-> change, changeCurrency |-> changeCurrency,
     totalLRD |-> totalLRD, totalUSD |-> totalUSD, currencyRate |-> currencyRate]

\* The body of a return carries a currency and no payment.
ReturnFin(currency) ==
    Pay(currency, Absent, Absent, Absent, "none", Absent, Absent, Absent)

\* What a handler reads next from a list of line items: an item, or the end
\* of the list and the fields `fins` it reads after the loop.
NextOf(items, fins) ==
    {[more |-> TRUE, item |-> it, pay |-> <<>>] : it \in items}
        \cup {[more |-> FALSE, item |-> <<>>, pay |-> f] : f \in fins}

BodyStores == {"", "A", "B"}

Item(product, quantity) == [product |-> product, quantity |-> quantity]

Items == {Item("p1", 1), Item("p1", 2), Item("p1", -1), Item("p3", 1)}

ReturnItems == {Item("p1", 1), Item("p1", 0), Item("p3", 1)}

Payments ==
    { Pay("LRD", N(1000), Absent, Absent, "none", N(1000), N(5), Absent),
      Pay("LRD", N(999), Absent, Absent, "none", N(1000), N(5), Absent),
      Pay("BOTH", N(500), N(3), N(91), "LRD", N(1000), N(5), Absent),
      Pay("BOTH", N(500), N(3), Absent, "none", N(1000), N(5), Absent) }

\* The payments of the specification of the payment rules: every combination
\* of currency, amounts around the totals 1000 LRD and 5 USD, omitted fields
\* and an omitted, zero or supplied rate.
WidePayments ==
    { Pay(c, l, u, Absent, cc, tt[1], tt[2], rt) :
        c \in {"LRD", "USD", "BOTH", "none"},
        l \in {Absent, N(0), N(500), N(999), N(1000)},
        u \in {Absent, N(2), N(3), N(4), N(5)},
        cc \in {"none", "LRD"},
        tt \in {<<Absent, Absent>>, <<N(1000), N(5)>>},
        rt \in {Absent, N(0), N(250)} }

\* The line items of the specification of the payment rules.
PayItems == {Item("p1", 1)}

ReturnFins == {ReturnFin("LRD"), ReturnFin("BOTH")}

CreditFins ==
    [totalLRD : {N(1000)}, totalUSD : {N(5)}, preferredCurrency : {"none", "USD"}]

CustomerNames == {"", " ", "ann"}

CreditIds == {1, 2}

RateInputs == {Undefined, Num(0), Num(3)}

RateAliases == {Undefined, Num(4)}

\* The rates of the specification of updateRate's validation: missing, zero,
\* negative, positive, infinite, and a string that is no number.
WideRates == {Undefined, Num(0), Num(-2), Num(3), Num(Infinity), Str(Absent)}

Queries ==
    { Query(0, e, st[1], st[2]) :
        e \in 0..MaxDay, st \in {<<"", FALSE>>, <<"A", FALSE>>, <<"", TRUE>>} }

\* A sale of one line item as createTransaction persists it, paid in the
\* given currency with the given amount and change.
SaleOf(store, day, item, currency, total, received, change) ==
    TxDoc("sale", store, <<Enhance(item, InitProducts[item.product])>>,
          Pay(currency, N(received), N(received), N(change), "none",
              N(total), N(total), Absent),
          N(total), N(total), day)

\* A return of one line item as createReturnTransaction persists it.
ReturnOf(store, day, item, currency) ==
    TxDoc("return", store, <<Enhance(item, InitProducts[item.product])>>,
          ReturnFin(currency),
          Mul(InitProducts[item.product].priceLRD, N(item.quantity)),
          Mul(InitProducts[item.product].priceUSD, N(item.quantity)), day)

\* A sale of one line item paid in both currencies, as createTransaction
\* persists it: both amounts are kept, and the change is in changeCurrency;
\* totals and received are the pairs <<LRD, USD>>.
SplitSaleOf(store, day, item, totals, received, change, changeCurrency) ==
    TxDoc("sale", store, <<Enhance(item, InitProducts[item.product])>>,
          Pay("BOTH", N(received[1]), N(received[2]), N(change), changeCurrency,
              N(totals[1]), N(totals[2]), Absent),
          N(totals[1]), N(totals[2]), day)

\* The Transactions the collection of the reports' specification is made of.
ReportDocs ==
    { SaleOf("A", d, Item("p1", 1), "LRD", 2, 5, 3) : d \in 0..MaxDay }
      \cup { ReturnOf("A", d, Item("p1", 2), "LRD") : d \in 0..MaxDay }
      \cup { SaleOf("A", 0, Item("p1", -1), "LRD", 0, 1, 1),
             SaleOf("B", 0, Item("p4", 1), "USD", 3, 3, 0),
             ReturnOf("B", 0, Item("p4", 1), "USD"),
             SplitSaleOf("A", 0, Item("p1", 1), <<2, 1>>, <<1, 1>>, 196, "LRD") }

\* Transactions the collection holds at most in the reports' specification.
MaxTransactions == 3

\* The collections of at most n Transactions out of docs.
RECURSIVE Collections(_, _)
Collections(docs, n) ==
    IF n = 0 THEN {<<>>}
    ELSE Collections(docs, n - 1)
            \cup {Append(c, d) :
                     c \in {x \in Collections(docs, n - 1) : Len(x) = n - 1},
                     d \in docs}

\* The catalog of the specification of getTopProducts: eleven products of
\* store A and one of store B.
TopIds == <<"t1", "t2", "t3", "t4", "t5", "t6", "t7", "t8", "t9", "t10", "t11">>

TopCatalog ==
    [id \in {TopIds[i] : i \in 1..Len(TopIds)} \cup {"u1"} |->
        [store |-> IF id = "u1" THEN "B" ELSE "A", item |-> id,
         pieces |-> N(50), priceUSD |-> N(1), priceLRD |-> N(2), totalLRD |-> N(100)]]

\* A sale of several line items of the catalog as createTransaction
\* persists it.
TopSale(store, day, items, total) ==
    [TxDoc("sale", store, <<>>, Pay("LRD", N(total), Absent, Absent, "none",
                                    N(total), N(0), Absent),
           N(total), N(0), day)
       EXCEPT !.productsSold =
                 [i \in 1..Len(items) |-> Enhance(items[i], TopCatalog[items[i].product])]]

\* The Transactions the collection of that specification is made of: a sale
\* of all eleven products of store A (quantity i of the i-th), a sale of
\* 5, 10 and 3 pieces of three products, a sale of one product, a return,
\* and a sale of store B.
TopDocs ==
    { TopSale("A", 0, [i \in 1..Len(TopIds) |-> Item(TopIds[i], i)], 132),
      TopSale("A", 0, <<Item("t1", 5), Item("t2", 10), Item("t3", 3)>>, 36),
      TopSale("A", MaxDay, <<Item("t3", 9)>>, 18),
      [TopSale("A", 0, <<Item("t2", 4)>>, 8) EXCEPT !.type = "return"],
      TopSale("B", 0, <<Item("u1", 20)>>, 40) }

\* The queries of getTopProducts: startDate and endDate given or not, and
\* the store.
TopRanges == {<<Absent, Absent>>, <<N(0), N(0)>>, <<N(MaxDay), Absent>>}

TopStores == {"A", "B"}

\* ------------------------------------------------------------ specification

\* What Date.now() may give at this step: the clock never goes back.
Clock == now..MaxDay

Next ==
    \/ \E r \in Requests, s \in BodyStores, nxt \in NextOf(Items, Payments),
          t \in Clock : SaleStart(r, s, nxt, t)
    \/ \E r \in Requests : SaleFind(r)
    \/ \E r \in Requests, nxt \in NextOf(Items, Payments), t \in Clock :
          SaleInc(r, nxt, t)
    \/ \E r \in Requests : SaleSave(r)
    \/ \E r \in Requests, s \in BodyStores, nxt \in NextOf(ReturnItems, ReturnFins) :
          ReturnStart(r, s, nxt)
    \/ \E r \in Requests : ReturnFind(r)
    \/ \E r \in Requests, nxt \in NextOf(ReturnItems, ReturnFins), t \in Clock :
          ReturnInc(r, nxt, t)
    \/ \E r \in Requests : ReturnSave(r)
    \/ \E r \in Requests, s \in BodyStores, c \in CustomerNames,
          nxt \in NextOf(Items, CreditFins), t \in Clock : CreditStart(r, s, c, nxt, t)
    \/ \E r \in Requests : CreditFind(r)
    \/ \E r \in Requests, nxt \in NextOf(Items, CreditFins), t \in Clock :
          CreditInc(r, nxt, t)
    \/ \E r \in Requests : CreditSave(r)
    \/ \E r \in Requests, id \in CreditIds, s \in BodyStores : PayStart(r, id, s)
    \/ \E r \in Requests, pay \in Payments, t \in Clock : PayFind(r, pay, t)
    \/ \E r \in Requests, t \in Clock : PaySaveTx(r, t)
    \/ \E r \in Requests : PaySaveCredit(r)
    \/ \E r \in Requests, l \in RateInputs, i \in RateAliases : RateStart(r, l, i)
    \/ \E r \in Requests, t \in Clock : RateFind(r, t)
    \/ \E r \in Requests : RateSave(r)
    \/ \E r \in Requests : RateUpdateMany(r)

Spec == Init /\ [][Next]_vars

\* The payment rules on their own: one request, a sale or the settlement of
\* the pending credit, with any of the payments of WidePayments.
NextPay ==
    \/ /\ CanStart(1)
       /\ \E nxt \in NextOf(PayItems, WidePayments), t \in Clock :
             SaleStart(1, "A", nxt, t)
    \/ SaleFind(1)
    \/ /\ req[1].kind = "sale" /\ req[1].pc = "inc"
       /\ \E nxt \in NextOf(PayItems, WidePayments), t \in Clock : SaleInc(1, nxt, t)
    \/ SaleSave(1)
    \/ PayStart(1, 1, "A")
    \/ /\ req[1].kind = "pay" /\ req[1].pc = "findCredit"
       /\ \E pay \in WidePayments, t \in Clock : PayFind(1, pay, t)
    \/ \E t \in Clock : PaySaveTx(1, t)
    \/ PaySaveCredit(1)

SpecPay == Init /\ [][NextPay]_vars

\* updateRate on its own, with any of the rates of WideRates.
NextRate ==
    \/ \E r \in Requests, l \in WideRates, i \in RateAliases : RateStart(r, l, i)
    \/ \E r \in Requests, t \in Clock : RateFind(r, t)
    \/ \E r \in Requests : RateSave(r)
    \/ \E r \in Requests : RateUpdateMany(r)

SpecRate == Init /\ [][NextRate]_vars

\* The reports on their own, over a collection of sales and returns that
\* earlier requests have persisted.
InitReport ==
    /\ products = InitProducts
    /\ rate = <<>>
    /\ transactions \in Collections(ReportDocs, MaxTransactions)
    /\ credits = InitCredits
    /\ req = [r \in Requests |-> Fresh]
    /\ now = MaxDay

NextReport ==
    \/ \E r \in Requests, q \in Queries : ReportStart(r, q)
    \/ \E r \in Requests : ReportFindSales(r)
    \/ \E r \in Requests : ReportFindReturns(r)
    \/ \E r \in Requests : ReportFindRecent(r)

SpecReport == InitReport /\ [][NextReport]_vars

\* getTopProducts on its own, over a collection of Transactions that
\* earlier requests have persisted.
InitTop ==
    /\ products = TopCatalog
    /\ rate = <<>>
    /\ transactions \in Collections(TopDocs, MaxTransactions)
    /\ credits = <<>>
    /\ req = [r \in Requests |-> Fresh]
    /\ now = 0

NextTop ==
    \/ \E r \in Requests, range \in TopRanges, store \in TopStores, t \in Clock :
          TopStart(r, range[1], range[2], store, t)
    \/ \E r \in Requests, tie \in BOOLEAN : TopAggregate(r, tie)

SpecTop == InitTop /\ [][NextTop]_vars

\* ------------------------------------------------------------------ claims

\* The stored quantity as a number ($inc and the reports read a missing
\* pieces as 0).
Pieces(product) == OrDefault(product.pieces, 0)

\* The quantity of product p in a list of line items.
RECURSIVE QuantityOf(_, _)
QuantityOf(items, p) ==
    IF items = <<>> THEN 0
    ELSE (IF Head(items).product = p THEN Head(items).quantity ELSE 0)
            + QuantityOf(Tail(items), p)

\* What the requests 1..n have applied to the quantity of p so far: minus the
\* line items a sale or a credit has processed, plus those of a return.
RECURSIVE AppliedTo(_, _)
AppliedTo(p, n) ==
    IF n = 0 THEN 0
    ELSE AppliedTo(p, n - 1)
            + (CASE req[n].kind \in {"sale", "credit"} ->
                        0 - QuantityOf(req[n].enhanced, p)
                 [] req[n].kind = "return" -> QuantityOf(req[n].enhanced, p)
                 [] OTHER -> 0)

StockEquation ==
    \A p \in ProductIds :
        Pieces(products[p]) = Pieces(InitProducts[p]) + AppliedTo(p, MaxRequests)

\* C1: no inventory update is lost.  In every reachable state, whatever the
\* interleaving, each product's quantity equals its initial quantity minus
\* the quantities of all line items that sales and credits have processed
\* plus those that returns have processed; so a sale that completes has
\* lowered each product it touches by exactly the sum of its line items.
C1_NoLostUpdate == StockEquation

\* Two sales of the same product have both completed, the second having
\* read the product before the first one's decrement (the quantity went
\* below zero).
C1_Witness ==
    \E r1, r2 \in Requests :
        /\ r1 # r2
        /\ req[r1].kind = "sale" /\ req[r1].status = 201
        /\ req[r2].kind = "sale" /\ req[r2].status = 201
        /\ QuantityOf(req[r1].enhanced, "p1") = 2
        /\ QuantityOf(req[r2].enhanced, "p1") = 2
        /\ products["p1"].pieces = N(-2)

\* C2: starting from non-negative quantities, every product's quantity is
\* >= 0 in every reachable state.
C2_NonNegative ==
    \A p \in ProductIds :
        (Has(InitProducts[p].pieces) /\ V(InitProducts[p].pieces) >= 0)
            => Pieces(products[p]) >= 0

\* Request r takes this step, and the step is the $inc of a sale or a credit
\* on product p.
DecrementStep(r, p) ==
    /\ req[r].kind \in {"sale", "credit"}
    /\ req[r].pc = "inc"
    /\ req'[r] # req[r]
    /\ V(req[r].item).product = p

\* C3: the stock check and the decrement are two steps.  A step takes a
\* known, non-negative quantity below zero only as the decrement of a sale or
\* a credit whose check had passed against the quantity it read, a quantity
\* that is larger than the one stored by the time of the decrement (another
\* request has decremented in between).
C3_NegativeOnlyByStaleCheck ==
    [][\A p \in ProductIds :
          (/\ Has(products[p].pieces)
           /\ V(products[p].pieces) >= 0
           /\ V(products'[p].pieces) < 0)
          => \E r \in Requests :
                /\ DecrementStep(r, p)
                /\ Has(V(req[r].product).pieces)
                /\ V(V(req[r].product).pieces) >= V(req[r].item).quantity
                /\ V(V(req[r].product).pieces) > V(products[p].pieces)]_vars

\* A sale and a credit have each taken 2 of the 2 pieces of p1: both passed
\* the check against the same quantity and the quantity is now -2.
C3_Witness ==
    \E r1, r2 \in Requests :
        /\ req[r1].kind = "sale" /\ req[r2].kind = "credit"
        /\ QuantityOf(req[r1].enhanced, "p1") = 2
        /\ QuantityOf(req[r2].enhanced, "p1") = 2
        /\ Len(req[r1].enhanced) = 1 /\ Len(req[r2].enhanced) = 1
        /\ products["p1"].pieces = N(-2)

\* The payCredit requests that have inserted a Transaction for credit c.
Settlements(c) ==
    {r \in Requests :
        /\ req[r].kind = "pay" /\ req[r].creditId = c
        /\ req[r].pc = "saveCredit" \/ (req[r].pc = "done" /\ req[r].status = 200)}

\* C4: a credit is settled by exactly one Transaction.  Whatever the
\* interleaving of payCredit requests on the same credit, at most one of them
\* inserts a Transaction for it, and once paymentTransaction and paidAt are
\* set no step changes them.
C4_PaidOnce ==
    [][\A c \in DOMAIN credits :
          /\ Cardinality(Settlements(c)') <= 1
          /\ Has(credits[c].paymentTransaction) =>
                /\ credits'[c].paymentTransaction = credits[c].paymentTransaction
                /\ credits'[c].paidAt = credits[c].paidAt]_vars

\* The rate a split payment is valued at.
EffectiveRate(pay) == OrDefault(pay.currencyRate, DefaultRate)

\* The payment covers the amounts due (the rule of the payment validation).
Sufficient(pay, dueLRD, dueUSD) ==
    CASE pay.currency = "LRD" ->
            IsNumber(pay.amountReceivedLRD) /\ V(pay.amountReceivedLRD) >= dueLRD
      [] pay.currency = "USD" ->
            IsNumber(pay.amountReceivedUSD) /\ V(pay.amountReceivedUSD) >= dueUSD
      [] pay.currency = "BOTH" ->
            /\ IsNumber(pay.amountReceivedLRD) /\ IsNumber(pay.amountReceivedUSD)
            /\ V(pay.amountReceivedLRD) + V(pay.amountReceivedUSD) * EffectiveRate(pay)
                  >= dueLRD
      [] OTHER -> FALSE

\* payCredit request r runs its Credit.findOne in this step, and the credit
\* it names is a paid credit of its store.
FindsPaidCredit(r) ==
    /\ req[r].kind = "pay" /\ req[r].pc = "findCredit" /\ req'[r] # req[r]
    /\ req[r].creditId \in DOMAIN credits
    /\ credits[req[r].creditId].store = req[r].store
    /\ credits[req[r].creditId].status = "paid"

\* payCredit request r answers in this step, having found its credit pending
\* and having been offered a sufficient payment.
AnswersSufficientPayment(r) ==
    /\ req[r].kind = "pay" /\ req[r].pc # "done" /\ req'[r].pc = "done"
    /\ Has(req'[r].pay)
    /\ Sufficient(V(req'[r].pay), credits[req[r].creditId].totalLRD,
                  credits[req[r].creditId].totalUSD)

\* After the step the credit of request r is paid and linked to a sale
\* Transaction that carries the credit's totals and line items and that no
\* other credit is linked to; the request is answered 200.
SettledAfter(r) ==
    LET c == req[r].creditId IN
    /\ req'[r].status = 200
    /\ credits'[c].status = "paid"
    /\ Has(credits'[c].paidAt)
    /\ Has(credits'[c].paymentTransaction)
    /\ LET k == V(credits'[c].paymentTransaction) IN
          /\ k \in DOMAIN transactions'
          /\ transactions'[k].type = "sale"
          /\ transactions'[k].store = credits[c].store
          /\ transactions'[k].totalLRD = N(credits[c].totalLRD)
          /\ transactions'[k].totalUSD = N(credits[c].totalUSD)
          /\ transactions'[k].productsSold = credits[c].productsSold
          /\ \A c2 \in DOMAIN credits' :
                c2 # c => credits'[c2].paymentTransaction # N(k)

RejectedUnchanged(r) ==
    /\ req'[r].pc = "done" /\ req'[r].status = 404
    /\ UNCHANGED <<products, rate, transactions, credits>>

\* C5 as claimed: payCredit on a paid credit answers 404 and changes nothing;
\* payCredit on a pending credit with a sufficient payment marks it paid and
\* links a new sale Transaction with the credit's totals and line items.
C5_PayCreditAsClaimed ==
    [][\A r \in Requests :
          /\ FindsPaidCredit(r) => RejectedUnchanged(r)
          /\ AnswersSufficientPayment(r) => SettledAfter(r)]_vars

\* The Transaction of the payment passes the schema's validation of
\* changeCurrency: a split payment names LRD or USD as its change currency.
ChangeCurrencyValid(pay) ==
    pay.currency = "BOTH" => pay.changeCurrency \in {"LRD", "USD"}

\* C5, amended: payCredit on a paid credit answers 404 and changes nothing;
\* payCredit on a pending credit with a sufficient payment that, when split
\* (BOTH), names LRD or USD as its change currency, marks the credit paid and
\* links a new sale Transaction with the credit's totals and line items.
C5_PayCredit ==
    [][\A r \in Requests :
          /\ FindsPaidCredit(r) => RejectedUnchanged(r)
          /\ (AnswersSufficientPayment(r) /\ ChangeCurrencyValid(V(req'[r].pay)))
                => SettledAfter(r)]_vars

\* One payCredit has settled credit 1 and a later one on the same credit was
\* answered 404.
C5_Witness ==
    \E r1, r2 \in Requests :
        /\ req[r1].kind = "pay" /\ req[r1].creditId = 1 /\ req[r1].status = 200
        /\ req[r2].kind = "pay" /\ req[r2].creditId = 1 /\ req[r2].status = 404
        /\ req[r2].store = credits[1].store
        /\ credits[1].status = "paid"

\* createSale request r is answered with a failure in this step.
SaleFails(r) ==
    /\ req[r].pc # "done" /\ req'[r].pc = "done"
    /\ req'[r].kind = "sale" /\ req'[r].status # 201

\* C6: when createSale fails after its loop has processed k line items (the
\* next line item is unknown in the store or short of stock, or the payment
\* is refused after the whole list), the failing step persists no Transaction
\* and gives nothing back: it changes the stock by at most its own decrement,
\* and the k decrements of the request remain applied.
C6_NoRollback ==
    [][\A r \in Requests :
          SaleFails(r) =>
             /\ transactions' = transactions
             /\ \A p \in ProductIds :
                   Pieces(products'[p]) =
                      Pieces(products[p]) - (QuantityOf(req'[r].enhanced, p)
                                                - QuantityOf(req[r].enhanced, p))
             /\ StockEquation']_vars

\* One sale stopped at its second line item (unknown in the store) and one
\* was refused its payment; each had decremented one piece of p1, both
\* decrements are still applied and no Transaction exists.
C6_Witness ==
    \E r1, r2 \in Requests :
        /\ req[r1].kind = "sale" /\ req[r1].pc = "done" /\ req[r1].status = 404
        /\ QuantityOf(req[r1].enhanced, "p1") = 1
        /\ req[r2].kind = "sale" /\ req[r2].pc = "done" /\ req[r2].error = ErrLRD
        /\ QuantityOf(req[r2].enhanced, "p1") = 1
        /\ products["p1"].pieces = N(0)
        /\ transactions = <<>>

PaymentErrors == {ErrLRD, ErrUSD, ErrBoth, ErrCombined}

\* The payment validation of request r has run.
Validated(r) == req[r].kind \in {"sale", "pay"} /\ Has(req[r].pay)

\* The payment validation of request r has run and has let the payment pass.
Accepted(r) ==
    Validated(r) /\ ~(req[r].pc = "done" /\ req[r].error \in PaymentErrors)

\* The amounts due of request r: the totals of the body for a sale, the
\* stored totals of the credit for payCredit.
DueLRD(r) ==
    IF req[r].kind = "sale" THEN V(req[r].pay).totalLRD
    ELSE N(credits[req[r].creditId].totalLRD)

DueUSD(r) ==
    IF req[r].kind = "sale" THEN V(req[r].pay).totalUSD
    ELSE N(credits[req[r].creditId].totalUSD)

SplitCovers(pay, effectiveRate, due) ==
    /\ IsNumber(pay.amountReceivedLRD) /\ IsNumber(pay.amountReceivedUSD)
    /\ V(pay.amountReceivedLRD) + V(pay.amountReceivedUSD) * effectiveRate >= due

ReturnIncStep(r) ==
    req[r].kind = "return" /\ req[r].pc = "inc" /\ req'[r] # req[r]

\* Return request r completes in this step.
ReturnCompletes(r) ==
    /\ req[r].kind = "return" /\ req[r].pc # "done"
    /\ req'[r].pc = "done" /\ req'[r].status = 201

\* Return request r checks, in this step, a line item of a product of its
\* store whose quantity is <= 0.
ReturnChecksNonPositive(r) ==
    /\ req[r].kind = "return" /\ req[r].pc = "find" /\ req'[r] # req[r]
    /\ Has(FindProduct(V(req[r].item).product, req[r].store))
    /\ V(req[r].item).quantity <= 0

\* C9: every line item a return processes raises the quantity-on-hand of
\* its product by exactly its (positive) quantity and changes no other
\* product; a return that completes persists a Transaction of kind return
\* with its line items, and all its increments are in the stock; a line item
\* with quantity <= 0 is answered with a validation error (400) and the stock
\* is not changed.
C9_ReturnRestocks ==
    [][\A r \in Requests :
          /\ ReturnIncStep(r) =>
                LET item == V(req[r].item) IN
                /\ item.quantity > 0
                /\ \A p \in ProductIds :
                      Pieces(products'[p]) =
                         Pieces(products[p])
                            + (IF p = item.product THEN item.quantity ELSE 0)
          /\ ReturnCompletes(r) =>
                /\ Len(transactions') = Len(transactions) + 1
                /\ transactions'[Len(transactions')].type = "return"
                /\ transactions'[Len(transactions')].store = req[r].store
                /\ transactions'[Len(transactions')].productsSold = req[r].enhanced
                /\ req[r].enhanced # <<>>
                /\ StockEquation'
          /\ ReturnChecksNonPositive(r) =>
                /\ req'[r].pc = "done" /\ req'[r].status = 400
                /\ req'[r].error = "Invalid quantity for product"
                /\ products' = products /\ transactions' = transactions]_vars

\* One return of two pieces of p1 has completed and another was refused for
\* a quantity of zero: the stock of p1 went from 2 to 4 and one return
\* Transaction exists.
C9_Witness ==
    \E r1, r2 \in Requests :
        /\ req[r1].kind = "return" /\ req[r1].status = 201
        /\ QuantityOf(req[r1].enhanced, "p1") = 2
        /\ req[r2].kind = "return" /\ req[r2].status = 400
        /\ req[r2].error = "Invalid quantity for product"
        /\ products["p1"].pieces = N(4)
        /\ Len(transactions) = 1 /\ transactions[1].type = "return"

\* updateRate request r is answered 200 in this step.
RateSucceeds(r) ==
    /\ req[r].kind = "rate" /\ req[r].pc # "done"
    /\ req'[r].pc = "done" /\ req'[r].status = 200

\* C10: when updateRate to the rate R2 succeeds, every product that has a
\* USD price has priceLRD = priceUSD * R2 (its USD price is as before), and
\* every product without a USD price has all its fields unchanged.
C10_RateCascade ==
    [][\A r \in Requests :
          RateSucceeds(r) =>
             \A p \in ProductIds :
                IF Has(products[p].priceUSD)
                THEN /\ products'[p].priceUSD = products[p].priceUSD
                     /\ products'[p].priceLRD =
                           N(V(products[p].priceUSD) * V(req[r].lrdToUsd))
                ELSE products'[p] = products[p]]_vars

\* The rate was set to 3 and then to 4: the products with a USD price are
\* priced at 4 LRD per USD, and p3, which has none, keeps its price.
C10_Witness ==
    \E r1, r2 \in Requests :
        /\ req[r1].kind = "rate" /\ req[r1].status = 200 /\ req[r1].lrdToUsd = N(3)
        /\ req[r2].kind = "rate" /\ req[r2].status = 200 /\ req[r2].lrdToUsd = N(4)
        /\ Len(rate) = 1 /\ rate[1].lrdToUsd = 4
        /\ products["p1"].priceLRD = N(4)
        /\ products["p2"].priceLRD = N(8)
        /\ products["p4"].priceLRD = N(12)
        /\ products["p3"] = InitProducts["p3"]

\* C11: when updateRate succeeds, every product with a USD price whose
\* quantity-on-hand is set (pieces = 0 included) has totalLRD = pieces *
\* priceLRD with the new priceLRD, and only the products whose quantity is
\* unknown keep their totalLRD.
C11_TotalRecomputed ==
    [][\A r \in Requests :
          RateSucceeds(r) =>
             \A p \in ProductIds :
                Has(products[p].priceUSD) =>
                   IF Has(products[p].pieces)
                   THEN products'[p].totalLRD =
                           N(V(products[p].pieces) * V(products'[p].priceLRD))
                   ELSE products'[p].totalLRD = products[p].totalLRD]_vars

\* A finite positive number.
FinitePositive(x) == Has(x) /\ V(x) > 0 /\ ~IsInfinite(V(x))

\* updateRate request r arrives in this step with a rate (what Number gives
\* for it) that is no finite positive number.
ArrivesWithBadRate(r) ==
    /\ req[r].pc = "idle" /\ req'[r].kind = "rate"
    /\ ~FinitePositive(req'[r].lrdToUsd)

\* C12: updateRate answers 400 to every rate that is not a finite positive
\* number (missing, zero, negative, not a number, infinite), and the rejected
\* update leaves the stored rate and every product unchanged.
C12_BadRateRejected ==
    [][\A r \in Requests :
          ArrivesWithBadRate(r) =>
             /\ req'[r].pc = "done" /\ req'[r].status = 400
             /\ rate' = rate /\ products' = products]_vars

\* The reports that have been emitted.
Emitted == {V(req[r].report) : r \in {x \in Requests : Has(req[x].report)}}

\* C13: in every emitted sales report every monetary and quantity field of
\* every bucket of the daily, store and product rollups and of the summary
\* is >= 0.
C13_ReportNonNegative ==
    \A rep \in Emitted :
        /\ \A i \in 1..Len(rep.dailyTotals) :
              /\ rep.dailyTotals[i].totalLRD >= 0 /\ rep.dailyTotals[i].totalUSD >= 0
              /\ rep.dailyTotals[i].items >= 0
        /\ \A i \in 1..Len(rep.storeTotals) :
              /\ rep.storeTotals[i].totalLRD >= 0 /\ rep.storeTotals[i].totalUSD >= 0
              /\ rep.storeTotals[i].items >= 0
        /\ \A i \in 1..Len(rep.productTotals) :
              /\ rep.productTotals[i].totalLRD >= 0
              /\ rep.productTotals[i].totalUSD >= 0
              /\ rep.productTotals[i].quantitySold >= 0
              /\ rep.productTotals[i].quantityReturned >= 0
        /\ rep.summary.totalLRD >= 0 /\ rep.summary.totalUSD >= 0
        /\ rep.summary.totalItems >= 0
        /\ rep.summary.totalAmountReceivedLRD >= 0
        /\ rep.summary.totalAmountReceivedUSD >= 0
        /\ rep.summary.totalChangeLRD >= 0 /\ rep.summary.totalChangeUSD >= 0

\* The sum of the totalLRD ("LRD") or totalUSD ("USD") of transactions.
RECURSIVE TotalOf(_, _)
TotalOf(txs, cur) ==
    IF txs = <<>> THEN 0
    ELSE (IF cur = "LRD" THEN OrDefault(Head(txs).totalLRD, 0)
                         ELSE OrDefault(Head(txs).totalUSD, 0))
            + TotalOf(Tail(txs), cur)

\* The line items named `name` of a list of line items: their quantity, and
\* their value at the snapshotted price of a currency.
RECURSIVE NamedQuantity(_, _)
NamedQuantity(items, name) ==
    IF items = <<>> THEN 0
    ELSE (IF name \in {"", Head(items).productName} THEN Head(items).quantity ELSE 0)
            + NamedQuantity(Tail(items), name)

RECURSIVE NamedValue(_, _, _)
NamedValue(items, name, cur) ==
    IF items = <<>> THEN 0
    ELSE (IF Head(items).productName = name
          THEN Head(items).quantity
                  * (IF cur = "LRD" THEN V(Head(items).priceAtSale.LRD)
                                    ELSE V(Head(items).priceAtSale.USD))
          ELSE 0)
            + NamedValue(Tail(items), name, cur)

\* Over transactions: the quantity of the line items named `name` (of all
\* line items when name is ""), and the revenue of the product `name` in a
\* currency: a transaction in LRD counts at its LRD price towards LRD, any
\* other at its USD price towards USD.
RECURSIVE QuantityIn(_, _)
QuantityIn(txs, name) ==
    IF txs = <<>> THEN 0
    ELSE NamedQuantity(Head(txs).productsSold, name) + QuantityIn(Tail(txs), name)

RECURSIVE RevenueIn(_, _, _)
RevenueIn(txs, name, cur) ==
    IF txs = <<>> THEN 0
    ELSE (IF (Head(txs).currency = "LRD") = (cur = "LRD")
          THEN NamedValue(Head(txs).productsSold, name, cur) ELSE 0)
            + RevenueIn(Tail(txs), name, cur)

\* The transactions of a day, and of a store.
OfDay(txs, day) == LET Test(tx) == tx.date = day IN SelectSeq(txs, Test)

OfStore(txs, store) == LET Test(tx) == tx.store = store IN SelectSeq(txs, Test)

\* A bucket of the daily or store rollup holds, of the sales `sold` and the
\* returns `returned` that fall into it: totals and items sold minus
\* returned, the number of sales and, separately, the number of returns.
NetBucket(bucket, sold, returned) ==
    /\ bucket.totalLRD = TotalOf(sold, "LRD") - TotalOf(returned, "LRD")
    /\ bucket.totalUSD = TotalOf(sold, "USD") - TotalOf(returned, "USD")
    /\ bucket.items = QuantityIn(sold, "") - QuantityIn(returned, "")
    /\ bucket.transactions = Len(sold)
    /\ bucket.returns = Len(returned)

\* The daily and store rollups of the unclamped fold are net of the returns.
NetDailyAndStore(sales, returns) ==
    LET f == Folded(sales, returns) IN
    /\ \A i \in 1..Len(f.daily) :
          NetBucket(f.daily[i], OfDay(sales, f.daily[i].key),
                    OfDay(returns, f.daily[i].key))
    /\ \A i \in 1..Len(f.store) :
          NetBucket(f.store[i], OfStore(sales, f.store[i].key),
                    OfStore(returns, f.store[i].key))
    /\ \A i \in 1..Len(sales) \cup {-j : j \in 1..Len(returns)} :
          LET tx == IF i > 0 THEN sales[i] ELSE returns[-i] IN
          /\ Position(f.daily, tx.date) # 0
          /\ Position(f.store, tx.store) # 0

\* The revenue of a product bucket of the unclamped fold is net of the
\* returns, per currency.
NetProductRevenue(sales, returns) ==
    LET f == Folded(sales, returns) IN
    \A i \in 1..Len(f.product) :
        LET b == f.product[i]
            sold == OfStore(sales, b.store)
            returned == OfStore(returns, b.store)
        IN  /\ b.totalLRD = RevenueIn(sold, b.name, "LRD")
                               - RevenueIn(returned, b.name, "LRD")
            /\ b.totalUSD = RevenueIn(sold, b.name, "USD")
                               - RevenueIn(returned, b.name, "USD")

\* Report request r has read the sales and the returns and folds them in
\* its next step.
ReadyToFold(r) == req[r].kind = "report" /\ req[r].pc = "findRecent"

\* C14 as claimed: a return is folded into each of the three rollups by
\* subtracting its quantities and revenue from the bucket of the matching
\* sales and counting it in the bucket's returns counter, so that before
\* the clamping each bucket's quantity and revenue are sold minus returned;
\* for a product bucket the quantity is quantitySold.
C14_ReturnsNettedAsClaimed ==
    \A r \in Requests :
        ReadyToFold(r) =>
            /\ NetDailyAndStore(req[r].sales, req[r].returns)
            /\ NetProductRevenue(req[r].sales, req[r].returns)
            /\ LET f == Folded(req[r].sales, req[r].returns) IN
               \A i \in 1..Len(f.product) :
                  f.product[i].quantitySold =
                     QuantityIn(OfStore(req[r].sales, f.product[i].store),
                                f.product[i].name)
                        - QuantityIn(OfStore(req[r].returns, f.product[i].store),
                                     f.product[i].name)

\* C14, amended: a return is folded into the daily and the store rollup by
\* subtracting its totals and item quantities from the bucket of its day and
\* of its store and counting it in that bucket's returns counter; in the
\* product rollup its revenue is subtracted (in LRD when the return is in
\* LRD, else in USD) and its quantities are added to the bucket's
\* quantityReturned, while quantitySold stays the quantity sold.
C14_ReturnsNetted ==
    \A r \in Requests :
        ReadyToFold(r) =>
            /\ NetDailyAndStore(req[r].sales, req[r].returns)
            /\ NetProductRevenue(req[r].sales, req[r].returns)
            /\ LET f == Folded(req[r].sales, req[r].returns) IN
               \A i \in 1..Len(f.product) :
                  /\ f.product[i].quantitySold =
                        QuantityIn(OfStore(req[r].sales, f.product[i].store),
                                   f.product[i].name)
                  /\ f.product[i].quantityReturned =
                        QuantityIn(OfStore(req[r].returns, f.product[i].store),
                                   f.product[i].name)

\* A report is about to fold a sale of rice in store A and a larger return
\* of rice in store A on the same day.
C14_Witness ==
    \E r \in Requests :
        /\ ReadyToFold(r)
        /\ \E i \in 1..Len(req[r].sales), j \in 1..Len(req[r].returns) :
              /\ req[r].sales[i].date = req[r].returns[j].date
              /\ req[r].sales[i].store = req[r].returns[j].store
              /\ QuantityIn(<<req[r].sales[i]>>, "rice") = 1
              /\ QuantityIn(<<req[r].returns[j]>>, "rice") = 2

\* A step of a report request.
ReportStep(r) == req'[r].kind = "report" /\ req'[r] # req[r]

RECURSIVE ItemQuantity(_, _)
ItemQuantity(items, id) ==
    IF items = <<>> THEN 0
    ELSE (IF Head(items).product = id THEN Head(items).quantity ELSE 0)
            + ItemQuantity(Tail(items), id)

RECURSIVE SoldQuantity(_, _)
SoldQuantity(txs, id) ==
    IF txs = <<>> THEN 0
    ELSE ItemQuantity(Head(txs).productsSold, id) + SoldQuantity(Tail(txs), id)

\* The sale-kind transactions of the store and the date range of a query,
\* and the products that have a line item in one of them.
SalesOfQuery(query) ==
    LET InScope(tx) ==
            /\ tx.type = "sale" /\ tx.store = query.store
            /\ tx.date >= query.start /\ tx.date <= query.end
    IN  SelectSeq(transactions, InScope)

ProductsOf(txs) ==
    UNION {{txs[k].productsSold[i].product : i \in 1..Len(txs[k].productsSold)} :
              k \in 1..Len(txs)}

\* Request r is a getTopProducts that has answered.
TopAnswered(r) ==
    req[r].kind = "top" /\ req[r].pc = "done" /\ req[r].status = 200

RECURSIVE SalesOfEntries(_, _)
SalesOfEntries(top, cur) ==
    IF top = <<>> THEN 0
    ELSE (IF cur = "LRD" THEN Head(top).totalSalesLRD ELSE Head(top).totalSalesUSD)
            + SalesOfEntries(Tail(top), cur)

\* C18: getTopProducts credits each product the revenue of its own line
\* items only, so that, when the cap leaves no product out, the
\* totalSalesLRD of the entries add up to the totalLRD of the sales of the
\* store and the range, and the totalSalesUSD to their totalUSD.
C18_RevenueIsOwnShare ==
    \A r \in Requests :
        TopAnswered(r) =>
            LET top == V(req[r].report)
                sales == SalesOfQuery(V(req[r].query))
            IN  Cardinality(ProductsOf(sales)) <= TopLimit =>
                    /\ SalesOfEntries(top, "LRD") = TotalOf(sales, "LRD")
                    /\ SalesOfEntries(top, "USD") = TotalOf(sales, "USD")

\* The step appends one Transaction to the collection.
Inserts == Len(transactions') = Len(transactions) + 1

\* C17: no step of any operation changes or removes a Transaction that is
\* in the collection; createTransaction snapshots into each line item the
\* prices of the product document it read for that item, and the
\* Transaction it inserts carries exactly those line items, so the prices
\* of a recorded sale are those read at its creation whatever the rate does
\* afterwards.
C17_TransactionsImmutable ==
    [][/\ Len(transactions') >= Len(transactions)
       /\ \A k \in 1..Len(transactions) : transactions'[k] = transactions[k]
       /\ \A r \in Requests :
             req[r].kind = "sale" =>
                /\ (req[r].pc = "find" /\ req'[r].pc = "inc") =>
                       req'[r].product = N(products[V(req[r].item).product])
                /\ (req[r].pc = "inc" /\ req'[r] # req[r]) =>
                       LET line == req'[r].enhanced[Len(req'[r].enhanced)] IN
                       /\ SubSeq(req'[r].enhanced, 1, Len(req[r].enhanced))
                             = req[r].enhanced
                       /\ line.priceAtSale.USD = V(req[r].product).priceUSD
                       /\ line.priceAtSale.LRD = V(req[r].product).priceLRD
                /\ (req[r].pc = "save" /\ req'[r] # req[r] /\ Inserts) =>
                       transactions'[Len(transactions')].productsSold
                          = req[r].enhanced
      ]_vars

\* A sale is in the collection whose line item holds an LRD price that is
\* no longer the price of its product: the rate was updated after the sale.
C17_Witness ==
    \E k \in 1..Len(transactions) :
        /\ transactions[k].type = "sale"
        /\ \E i \in 1..Len(transactions[k].productsSold) :
              LET line == transactions[k].productsSold[i] IN
              /\ line.product \in DOMAIN products
              /\ Has(line.priceAtSale.LRD)
              /\ Has(products[line.product].priceLRD)
              /\ line.priceAtSale.LRD # products[line.product].priceLRD

\* C19: every Transaction that createTransaction or payCredit has persisted
\* is of type sale, holds amountReceivedUSD = 0 when its currency is LRD and
\* amountReceivedLRD = 0 when its currency is USD, and has its
\* changeCurrency equal to its currency unless the currency is BOTH.
C19_PaymentFieldsNormalized ==
    \A k \in 1..Len(transactions) :
        LET tx == transactions[k] IN
        /\ tx.type = "sale"
        /\ tx.currency = "LRD" => tx.amountReceivedUSD = 0
        /\ tx.currency = "USD" => tx.amountReceivedLRD = 0
        /\ tx.currency # "BOTH" => tx.changeCurrency = tx.currency

\* Request r takes this step.
Steps(r) == req'[r] # req[r]

\* The step of r is the lookup and the stock check of its current line item
\* as createTransaction does them: no stock changes; 404 when the product is
\* not of the store, 400 when fewer pieces are in stock than asked, and
\* otherwise the request goes on to the decrement with the product it read.
LineItemChecked(r) ==
    LET item == V(req[r].item)
        known == /\ item.product \in DOMAIN products
                 /\ products[item.product].store = req[r].store
    IN  /\ products' = products
        /\ IF ~known THEN req'[r].pc = "done" /\ req'[r].status = 404
           ELSE IF Lt(products[item.product].pieces, N(item.quantity))
                THEN req'[r].pc = "done" /\ req'[r].status = 400
           ELSE /\ req'[r].pc = "inc"
                /\ req'[r].product = N(products[item.product])

\* The step of r is the decrement and the snapshot of its current line item
\* as createTransaction does them: the stock of that product, and of no
\* other, goes down by the quantity, and the line item is pushed with the
\* name and both prices of the product read.
LineItemApplied(r) ==
    LET item == V(req[r].item)
        read == V(req[r].product)
        was == products[item.product].pieces
    IN  /\ products' = [products EXCEPT ![item.product].pieces =
                            N((IF Has(was) THEN V(was) ELSE 0) - item.quantity)]
        /\ req'[r].enhanced =
              Append(req[r].enhanced,
                     [product |-> item.product, quantity |-> item.quantity,
                      productName |-> read.item,
                      priceAtSale |-> [USD |-> read.priceUSD, LRD |-> read.priceLRD]])

\* C20: createCredit answers 400 on a missing store or a blank customerName
\* in its first step, before any inventory is touched, and such a request
\* changes no stock; its line items go through the same check, decrement
\* and snapshot as those of createTransaction; after the last line item it
\* goes to the save with no payment validation; and the Credit it persists
\* is pending, with no paidAt and no paymentTransaction, and holds the
\* snapshotted line items.
C20_CreditCreation ==
    [][\A r \in Requests :
          /\ (Steps(r) /\ req[r].pc = "idle" /\ req'[r].kind = "credit") =>
                /\ products' = products /\ credits' = credits
                /\ IF req'[r].store = "" \/ req'[r].customerName \in {"", " "}
                   THEN req'[r].pc = "done" /\ req'[r].status = 400
                   ELSE req'[r].pc \in {"find", "save"}
          /\ (Steps(r) /\ req[r].kind \in {"credit", "sale"} /\ req[r].pc = "find") =>
                LineItemChecked(r)
          /\ (Steps(r) /\ req[r].kind \in {"credit", "sale"} /\ req[r].pc = "inc") =>
                LineItemApplied(r)
          /\ (Steps(r) /\ req[r].kind = "credit" /\ req[r].pc = "inc") =>
                req'[r].pc \in {"find", "save"}
          /\ (Steps(r) /\ req[r].kind = "credit" /\ req[r].pc = "save") =>
                /\ products' = products /\ transactions' = transactions
                /\ req'[r].pc = "done"
                /\ IF req'[r].status = 201
                   THEN /\ Len(credits') = Len(credits) + 1
                        /\ SubSeq(credits', 1, Len(credits)) = credits
                        /\ LET credit == credits'[Len(credits')] IN
                           /\ credit.status = "pending"
                           /\ credit.paidAt = Absent
                           /\ credit.paymentTransaction = Absent
                           /\ credit.store = req[r].store
                           /\ credit.customerName = req[r].customerName
                           /\ credit.productsSold = req[r].enhanced
                   ELSE credits' = credits
          /\ (req[r].kind = "credit" /\ req[r].pc = "done"
                /\ (req[r].store = "" \/ req[r].customerName \in {"", " "})) =>
                req'[r] = req[r]
      ]_vars

\* A createCredit with a line item has persisted its pending Credit, and a
\* createCredit with a store and a blank customerName was answered 400.
C20_Witness ==
    /\ \E r \in Requests :
          /\ req[r].kind = "credit" /\ req[r].status = 201
          /\ Len(req[r].enhanced) >= 1
          /\ \E k \in 1..Len(credits) :
                /\ credits[k].status = "pending"
                /\ credits[k].customerName = req[r].customerName
                /\ credits[k].productsSold = req[r].enhanced
    /\ \E r \in Requests :
          /\ req[r].kind = "credit" /\ req[r].status = 400
          /\ req[r].store # "" /\ req[r].customerName = " "

\* The value of a list of line items at their snapshotted prices in a
\* currency: the sum of price * quantity.
RECURSIVE ValueOfLines(_, _)
ValueOfLines(items, cur) ==
    IF items = <<>> THEN 0
    ELSE Head(items).quantity
            * (IF cur = "LRD" THEN V(Head(items).priceAtSale.LRD)
                              ELSE V(Head(items).priceAtSale.USD))
            + ValueOfLines(Tail(items), cur)

\* C21: createReturnTransaction reads the product of each line item from the
\* catalog, snapshots the prices of the document it read into the line item,
\* and the return Transaction it inserts carries those line items with
\* totalLRD and totalUSD equal to the sums of price * quantity over them;
\* nothing of the totals comes from the request body or from a sale.
C21_ReturnTotalsFromCatalog ==
    [][\A r \in Requests :
          (Steps(r) /\ req[r].kind = "return") =>
             /\ (req[r].pc = "find" /\ req'[r].pc = "inc") =>
                    req'[r].product = N(products[V(req[r].item).product])
             /\ req[r].pc = "inc" =>
                    LET line == req'[r].enhanced[Len(req'[r].enhanced)]
                        read == V(req[r].product)
                    IN  /\ SubSeq(req'[r].enhanced, 1, Len(req[r].enhanced))
                              = req[r].enhanced
                        /\ line.quantity = V(req[r].item).quantity
                        /\ line.priceAtSale.USD = read.priceUSD
                        /\ line.priceAtSale.LRD = read.priceLRD
             /\ (req[r].pc = "save" /\ Inserts) =>
                    LET tx == transactions'[Len(transactions')] IN
                    /\ tx.type = "return"
                    /\ tx.productsSold = req[r].enhanced
                    /\ tx.totalLRD = N(ValueOfLines(tx.productsSold, "LRD"))
                    /\ tx.totalUSD = N(ValueOfLines(tx.productsSold, "USD"))
      ]_vars

\* A return of two line items is in the collection whose items were priced
\* at different catalog prices (the rate changed between them), its totals
\* those of the prices read.
C21_Witness ==
    \E k \in 1..Len(transactions) :
        LET tx == transactions[k] IN
        /\ tx.type = "return"
        /\ Len(tx.productsSold) = 2
        /\ tx.productsSold[1].priceAtSale.LRD # tx.productsSold[2].priceAtSale.LRD
        /\ tx.totalLRD = N(ValueOfLines(tx.productsSold, "LRD"))

\* The sales in the range and of the store (or of all stores) of a report's
\* query.
SalesOfReport(query) ==
    LET InRange(tx) ==
            /\ tx.type = "sale"
            /\ tx.date >= query.start /\ tx.date <= query.end
            /\ query.allStores \/ tx.store = query.store
    IN  SelectSeq(transactions, InRange)

\* Over transactions: the sum of amountReceivedLRD ("LRD") or
\* amountReceivedUSD ("USD"), and the sum of the change of those whose
\* changeCurrency is the given currency.
RECURSIVE ReceivedIn(_, _)
ReceivedIn(txs, cur) ==
    IF txs = <<>> THEN 0
    ELSE (IF cur = "LRD" THEN Head(txs).amountReceivedLRD
                         ELSE Head(txs).amountReceivedUSD)
            + ReceivedIn(Tail(txs), cur)

RECURSIVE ChangeIn(_, _)
ChangeIn(txs, cur) ==
    IF txs = <<>> THEN 0
    ELSE (IF Head(txs).changeCurrency = cur THEN Head(txs).change ELSE 0)
            + ChangeIn(Tail(txs), cur)

\* Request r is a getSalesReport that has answered.
ReportAnswered(r) ==
    req[r].kind = "report" /\ req[r].pc = "done" /\ req[r].status = 200

\* C22: the summary of a sales report holds, over the sales of its range,
\* the sum of amountReceivedLRD, the sum of amountReceivedUSD, and per
\* currency the sum of the change of the sales whose changeCurrency it is,
\* the sales paid in both currencies included.
C22_ReceivedAndChangeTotals ==
    \A r \in Requests :
        ReportAnswered(r) =>
            LET summary == V(req[r].report).summary
                sales == SalesOfReport(V(req[r].query))
            IN  /\ summary.totalAmountReceivedLRD = ReceivedIn(sales, "LRD")
                /\ summary.totalAmountReceivedUSD = ReceivedIn(sales, "USD")
                /\ summary.totalChangeLRD = ChangeIn(sales, "LRD")
                /\ summary.totalChangeUSD = ChangeIn(sales, "USD")

\* C23: no step of a createTransaction or createCredit request increases the
\* quantity on hand of any product, whatever the quantity of the line item
\* that passed the stock check.
C23_SalesNeverIncreaseStock ==
    [][\A r \in Requests :
          (Steps(r) /\ req[r].kind \in {"sale", "credit"}) =>
             \A p \in DOMAIN products :
                Has(products[p].pieces) =>
                   /\ Has(products'[p].pieces)
                   /\ V(products'[p].pieces) <= V(products[p].pieces)
      ]_vars

\* C24: a step of a createTransaction, createReturnTransaction, createCredit
\* or payCredit request made for store S changes only products of S and
\* only credits of S, and the credit a payCredit holds is of S; a line item
\* that names a product of another store is answered 404 with no stock
\* changed; and every Transaction or Credit the step inserts carries S.
C24_StoreIsolation ==
    [][\A r \in Requests :
          (Steps(r) /\ req'[r].kind \in {"sale", "return", "credit", "pay"}) =>
             LET S == req'[r].store IN
             /\ \A p \in DOMAIN products :
                   products'[p] # products[p] => products[p].store = S
             /\ \A k \in 1..Len(credits) :
                   credits'[k] # credits[k] => credits[k].store = S
             /\ Has(req'[r].credit) => V(req'[r].credit).store = S
             /\ (/\ req[r].kind \in {"sale", "return", "credit"}
                 /\ req[r].pc = "find"
                 /\ products[V(req[r].item).product].store # S) =>
                    /\ req'[r].pc = "done" /\ req'[r].status = 404
                    /\ products' = products
             /\ Len(transactions') > Len(transactions) =>
                   transactions'[Len(transactions')].store = S
             /\ Len(credits') > Len(credits) =>
                   credits'[Len(credits')].store = S
      ]_vars

\* A request for store A had its first line item, of a product of A,
\* applied and its second, of a product of store B, answered 404; the
\* product of B has the quantity it started with.
C24_Witness ==
    \E r \in Requests :
        /\ req[r].kind \in {"sale", "credit"}
        /\ req[r].store = "A" /\ req[r].status = 404
        /\ Len(req[r].enhanced) = 1
        /\ products["p1"].pieces # InitProducts["p1"].pieces
        /\ products["p3"].pieces = InitProducts["p3"].pieces

====
